---------------------------- MODULE Spec2Model ----------------------------
(***************************************************************************)
(* A model of the IRC client core of eznix86/irc-client (src/irc.go): the  *)
(* Conn type with its Connect / Quit / sendRaw / readLoop / dispatch /      *)
(* HandleFunc methods, the line parser parseLine, and the goroutines the   *)
(* methods run in.                                                         *)
(*                                                                         *)
(* Strings are sequences of one-character strings, so that parsing and     *)
(* formatting are computed and not assumed.  Every goroutine is a process  *)
(* whose program counter pc[p] is the sequence of the steps it still has   *)
(* to take; a method call puts the method's steps in front of it.  Steps   *)
(* are separated where the code takes or releases c.mu, touches a channel  *)
(* or does I/O.                                                            *)
(***************************************************************************)
EXTENDS Naturals, Sequences, FiniteSets

(***************************************************************************)
(* Bounds of the model                                                     *)
(***************************************************************************)
\* calls of Connect, one after the other, and of Quit, one after the other,
\* on the one Conn (Spec)
MaxConnectCalls == 2
MaxQuitCalls == 2
\* lines the peer sends over the whole run (SpecDispatch)
MaxInbound == 2
\* HandleFunc calls (SpecDispatch)
MaxHandleFunc == 3
\* length of an arbitrary inbound line, and how many the peer sends (SpecAnyLine)
MaxLineLen == 4
MaxAnyLines == 1

(***************************************************************************)
(* Strings                                                                 *)
(***************************************************************************)
SP == " "
CRLF == <<"\r", "\n">>

sNICK == <<"N","I","C","K">>
sUSER == <<"U","S","E","R">>
sJOIN == <<"J","O","I","N">>
sPART == <<"P","A","R","T">>
sPRIVMSG == <<"P","R","I","V","M","S","G">>
sQUIT == <<"Q","U","I","T">>
sPING == <<"P","I","N","G">>
sPONG == <<"P","O","N","G">>
sDISCONNECTED == <<"D","I","S","C","O","N","N","E","C","T","E","D">>
sStar == <<"*">>

\* cfg.Nick, cfg.User, cfg.RealName: NewConfig sets all three to nick
CfgNick == <<"m","e">>
CfgUser == CfgNick
CfgRealName == CfgNick

Lower == <<"a","b","c","d","e","f","g","h","i","j","k","l","m",
           "n","o","p","q","r","s","t","u","v","w","x","y","z">>
Upper == <<"A","B","C","D","E","F","G","H","I","J","K","L","M",
           "N","O","P","Q","R","S","T","U","V","W","X","Y","Z">>

\* strings.ToUpper on one character
UpperChar(ch) ==
    IF \E i \in 1..26 : Lower[i] = ch
    THEN Upper[CHOOSE i \in 1..26 : Lower[i] = ch]
    ELSE ch

ToUpper(s) == [i \in 1..Len(s) |-> UpperChar(s[i])]

HasPrefix(s, ch) == Len(s) > 0 /\ s[1] = ch

\* strings.Index(s, ch): 0 when absent (Go's -1), else the 1-based position
Index(s, ch) ==
    IF \E i \in 1..Len(s) : s[i] = ch
    THEN CHOOSE i \in 1..Len(s) : s[i] = ch /\ \A j \in 1..(i-1) : s[j] # ch
    ELSE 0

\* strings.Split(s, " "): always at least one part, empty parts kept
RECURSIVE Split(_)
Split(s) ==
    LET i == Index(s, SP)
    IN  IF i = 0 THEN <<s>>
        ELSE <<SubSeq(s, 1, i-1)>> \o Split(SubSeq(s, i+1, Len(s)))

\* strings.SplitN(s, " ", 2)
SplitN2(s) ==
    LET i == Index(s, SP)
    IN  IF i = 0 THEN <<s>>
        ELSE <<SubSeq(s, 1, i-1), SubSeq(s, i+1, Len(s))>>

\* strings.Join(parts, " ")
RECURSIVE Join(_)
Join(parts) ==
    IF Len(parts) = 0 THEN <<>>
    ELSE IF Len(parts) = 1 THEN parts[1]
    ELSE parts[1] \o <<SP>> \o Join(Tail(parts))

IsSpace(ch) == ch \in {" ", "\t", "\r", "\n"}

\* strings.TrimSpace
RECURSIVE TrimLeft(_)
TrimLeft(s) == IF Len(s) > 0 /\ IsSpace(s[1]) THEN TrimLeft(Tail(s)) ELSE s
RECURSIVE TrimRight(_)
TrimRight(s) ==
    IF Len(s) > 0 /\ IsSpace(s[Len(s)])
    THEN TrimRight(SubSeq(s, 1, Len(s)-1)) ELSE s
TrimSpace(s) == TrimRight(TrimLeft(s))

(***************************************************************************)
(* Line and parseLine                                                      *)
(***************************************************************************)
EmptyLine == [Nick |-> <<>>, Src |-> <<>>, Cmd |-> <<>>, Args |-> <<>>]

\* the argument loop of parseLine, over the parts after the command
ParseArgsFirstWord(parts) ==
    IF Len(parts) = 0 THEN <<>>
    ELSE IF HasPrefix(parts[1], ":") THEN <<Tail(parts[1])>>
    ELSE <<parts[1]>>
RECURSIVE ParseArgs(_)
ParseArgs(parts) ==
    IF Len(parts) = 0 THEN <<>>
    ELSE IF HasPrefix(parts[1], ":")
         THEN <<Tail(Join(parts))>>
         ELSE <<parts[1]>> \o ParseArgs(Tail(parts))

\* command and parameters, after the prefix was taken off
ParseCommand(line, raw) ==
    LET parts == Split(raw)
    IN  [line EXCEPT !.Cmd = ToUpper(parts[1]),
                     !.Args = ParseArgs(Tail(parts))]

parseLineNoPrefix(raw) ==
    ParseCommand(EmptyLine, IF HasPrefix(raw, ":") THEN Tail(raw) ELSE raw)
parseLine(raw) ==
    IF HasPrefix(raw, ":")
    THEN LET parts == SplitN2(Tail(raw))
         IN  IF Len(parts) < 2 THEN EmptyLine
             ELSE LET src == parts[1]
                      idx == Index(src, "!")
                      nick == IF idx # 0 THEN SubSeq(src, 1, idx-1) ELSE <<>>
                  IN  ParseCommand([EmptyLine EXCEPT !.Src = src, !.Nick = nick],
                                   parts[2])
    ELSE ParseCommand(EmptyLine, raw)


(***************************************************************************)
(* Outbound command builders                                               *)
(***************************************************************************)
NickCmd == sNICK \o <<SP>> \o CfgNick
UserCmd == sUSER \o <<SP>> \o CfgUser \o <<SP, "0", SP, "*", SP, ":">> \o CfgRealName
JoinCmd(channel) == sJOIN \o <<SP>> \o channel
PartCmd(channel) == sPART \o <<SP>> \o channel
PrivmsgCmd(target, message) == sPRIVMSG \o <<SP>> \o target \o <<SP, ":">> \o message
QuitCmd(message) == IF message = <<>> THEN sQUIT ELSE sQUIT \o <<SP, ":">> \o message

\* the reply dispatch builds for a PING line
PongCmdBare(line) == sPONG
PongCmd(line) ==
    IF Len(line.Args) > 0 THEN sPONG \o <<SP, ":">> \o line.Args[1] ELSE sPONG

(***************************************************************************)
(* State                                                                   *)
(***************************************************************************)
VARIABLES
    connected,   \* c.connected
    conn,        \* c.conn (with c.reader and c.writer): 0 is nil, else a socket of net
    handlers,    \* c.handlers: event tag -> sequence of handlers (registration numbers)
    quit,        \* c.quit: "open" or "closed"
    done,        \* c.done: "open" or "closed"
    net,         \* the sockets dialed so far, with both directions of each
    pc,          \* per goroutine: the steps it still has to take
    ret,         \* per goroutine: how each call it made returned, in order
    trace,       \* per goroutine: what it has done, in order
    tasks,       \* the handler goroutines dispatch has started
    connects,    \* how many times Connect has set c.connected
    sent,        \* how many lines the peer has sent
    panicked,    \* "" or the method that panicked: the Go runtime ends the program
    debugSendFn, \* c.debugSendFn is set (TRUE) or nil (FALSE)
    parsed,      \* the calls of parseLine made on their own: what went in, what came out
    ircMsgChan,  \* m.ircMsgChan: the messages the handlers have queued for the UI
    model,       \* the model the Bubble Tea program holds (what Update returned last)
    cmds,        \* the commands and goroutines the UI has started and not finished
    clients      \* the configurations Client(cfg) was called with by the UI, in order

\* the UI's variables
uiVars == <<ircMsgChan, model, cmds, clients>>

vars == <<connected, conn, handlers, quit, done, net, pc, ret, trace,
          tasks, connects, sent, panicked, debugSendFn, parsed, uiVars>>

\* the model before the UI has built one, and no command outstanding
NoModel == [useTLS |-> FALSE]
\* wait: commands blocked in waitForIRCMessage; connect: connectIRC commands
\* running; timer: goroutines of handleTLSError about to send RECONNECT;
\* reconnect: the reconnect commands running, each with the copy of the model
\* its closure holds; msgs: the messages finished commands hold for Update
NoCmds == [wait |-> 0, connect |-> 0, timer |-> 0, reconnect |-> <<>>, msgs |-> <<>>]

\* the Conn's own fields
connVars == <<connected, conn, handlers, quit, done>>

(***************************************************************************)
(* Steps and events                                                        *)
(***************************************************************************)
F(op) == [op |-> op, cmd |-> <<>>, line |-> EmptyLine]
FCmd(op, cmd) == [op |-> op, cmd |-> cmd, line |-> EmptyLine]
FLine(op, event, line) == [op |-> op, cmd |-> event, line |-> line]

Ev(e) == [e |-> e, cmd |-> <<>>, line |-> EmptyLine, err |-> "",
          started |-> <<>>, reg |-> <<>>, flag |-> FALSE, epoch |-> 0,
          hook |-> FALSE]

Ret(call, st) == [call |-> call, st |-> st, flag |-> FALSE, begun |-> <<>>]

Procs == 1..Len(pc)
At(p, op) == p \in Procs /\ pc[p] # <<>> /\ Head(pc[p]).op = op
Log(p, ev) == trace' = [trace EXCEPT ![p] = Append(@, ev)]

\* map lookup on c.handlers: a missing key gives the nil slice
HandlersOf(reg, event) == IF event \in DOMAIN reg THEN reg[event] ELSE <<>>

\* goroutines inside sendRaw's write section: the line is in the buffer, the
\* flush is to come, c.mu.RLock is held
InSendRaw(p) == At(p, "sendRaw.flush")
\* goroutines inside sendRaw, past the connected check: c.mu.RLock is held
HoldsRLock(p) ==
    InSendRaw(p) \/ At(p, "sendRaw.hook") \/ At(p, "sendRaw.write")
\* c.mu.Lock() can be taken: no reader holds the lock
CanLock == \A p \in Procs : ~HoldsRLock(p)

\* Connected()
Connected == connected

(***************************************************************************)
(* The methods, as the steps a call takes                                  *)
(***************************************************************************)
\* Connect, lines 93-123
ConnectBody ==
    << F("Connect.dial"), F("Connect.markConnected"),
       FCmd("sendRaw", NickCmd), FCmd("sendRaw", UserCmd),
       F("Connect.return") >>

\* Quit, lines 291-309
QuitBody(message) ==
    << FCmd("sendRaw", QuitCmd(message)), F("Quit.closeQuit"), F("Quit.wait"),
       F("Quit.return") >>

\* Raw, Join, Part, Privmsg, lines 270-288: one sendRaw, its error dropped
RawBody(cmd) == << FCmd("sendRaw", cmd), F("return") >>

\* dispatch, lines 214-247: the PONG first, then the handlers
DispatchBodyHandlersFirst(event, line) ==
    << FLine("dispatch.handlers", event, line) >>
    \o (IF event = sPING THEN << FCmd("sendRaw", PongCmd(line)) >> ELSE <<>>)
DispatchBody(event, line) ==
    (IF event = sPING THEN << FCmd("sendRaw", PongCmd(line)) >> ELSE <<>>)
    \o << FLine("dispatch.handlers", event, line) >>

\* the handlers dispatch starts, lines 231-246: those of the event, then those of *
StartedNoWildcard(reg, event) == HandlersOf(reg, event)
StartedByDispatch(reg, event) == HandlersOf(reg, event) \o HandlersOf(reg, sStar)

\* readLoop's deferred calls, lines 134-140, in the order they run
DisconnectedLine == [EmptyLine EXCEPT !.Cmd = sDISCONNECTED]
ReadLoopExitDispatchFirst ==
    DispatchBody(sDISCONNECTED, DisconnectedLine)
    \o << F("readLoop.markDisconnected"), F("readLoop.closeDone") >>
ReadLoopExit ==
    << F("readLoop.markDisconnected") >>
    \o DispatchBody(sDISCONNECTED, DisconnectedLine)
    \o << F("readLoop.closeDone") >>

ReadLoopBody == << F("readLoop.select") >>

(***************************************************************************)
(* The network                                                             *)
(***************************************************************************)
\* bytes that end with the delimiter of ReadString('\n'), line 150
IsWholeLine(bytes) == bytes # <<>> /\ bytes[Len(bytes)] = "\n"

\* ReadString finds no line end in what has arrived
NoLineToRead(box) == IF box = <<>> THEN TRUE ELSE ~IsWholeLine(Head(box))

\* a socket as net.Dial returns it, dialed by the k-th call of goroutine p
NewSocket(p, k) ==
    [ by     |-> <<p, k>>, \* the Connect call that dialed it
      open   |-> TRUE,     \* not yet closed by conn.Close()
      peerUp |-> TRUE,     \* the peer has not closed or reset it
      inbox  |-> <<>>,     \* what the peer sent that ReadString has not returned:
                           \* lines, and last the bytes of a line not yet whole
      unsent |-> <<>>,     \* the rest of the line the peer is sending
      wbuf   |-> <<>>,     \* bufio.Writer's buffer
      werr   |-> FALSE,    \* bufio.Writer's sticky error
      wire   |-> <<>> ]    \* what the socket accepted, in order

\* what a data race on the bufio.Writer's buffer can leave in it
Garbled == <<"?">>

\* lines a server sends
InPingArg == sPING \o <<SP, ":", "x">> \o CRLF
InPingBare == sPING \o CRLF
InPrivmsg == <<":", "a", "!", "b", SP>> \o sPRIVMSG \o <<SP, "#", "c", SP, ":", "h", SP, "i">> \o CRLF
InBlank == CRLF
InboundLines == {InPingArg, InPingBare, InPrivmsg, InBlank}

(***************************************************************************)
(* Steps of the goroutines                                                 *)
(***************************************************************************)
Goto(p, k) == pc' = [pc EXCEPT ![p] = k]
Rest(p) == Tail(pc[p])
Returns(p, r) == ret' = [ret EXCEPT ![p] = Append(@, r)]

\* the steps left once the call in progress has returned early
RECURSIVE AfterCall(_, _)
AfterCall(k, lastOp) ==
    IF k = <<>> THEN <<>>
    ELSE IF Head(k).op = lastOp THEN Tail(k)
    ELSE AfterCall(Tail(k), lastOp)

\* how many calls each goroutine has begun: those that returned, and the one
\* in progress
CallsBegun == [q \in Procs |-> Len(ret[q]) + (IF pc[q] # <<>> THEN 1 ELSE 0)]

\* a panic in any goroutine ends the program: the Go runtime prints the
\* panic and exits, the goroutines are gone and the sockets closed with the
\* process; what is kept is which method panicked
Panic(call) ==
    /\ panicked' = call
    /\ connected' = FALSE
    /\ conn' = 0
    /\ handlers' = <<>>
    /\ quit' = "closed"
    /\ done' = "closed"
    /\ net' = <<>>
    /\ pc' = <<>>
    /\ ret' = <<>>
    /\ trace' = <<>>
    /\ tasks' = <<>>
    /\ connects' = 0
    /\ sent' = 0
    /\ debugSendFn' = FALSE
    /\ parsed' = <<>>
    /\ ircMsgChan' = <<>>
    /\ cmds' = NoCmds
    /\ UNCHANGED <<model, clients>>

\* lines 97-105: the dial fails, Connect returns the error
ConnectDialFailedStoresConn(p) ==
    /\ panicked = "" /\ At(p, "Connect.dial")
    /\ Goto(p, AfterCall(pc[p], "Connect.return"))
    /\ Returns(p, Ret("Connect", "error"))
    /\ net' = Append(net, [NewSocket(p, Len(ret[p]) + 1) EXCEPT !.open = FALSE])
    /\ conn' = Len(net) + 1
    /\ UNCHANGED <<connected, handlers, quit, done, trace, tasks, connects, sent, panicked, debugSendFn, parsed, uiVars>>
ConnectDialFailed(p) ==
    /\ panicked = "" /\ At(p, "Connect.dial")
    /\ Goto(p, AfterCall(pc[p], "Connect.return"))
    /\ Returns(p, Ret("Connect", "error"))
    /\ UNCHANGED <<connVars, net, trace, tasks, connects, sent, panicked, debugSendFn, parsed, uiVars>>

\* lines 97-109: the dial succeeds; conn, reader and writer are stored
ConnectDialed(p) ==
    /\ panicked = "" /\ At(p, "Connect.dial")
    /\ net' = Append(net, NewSocket(p, Len(ret[p]) + 1))
    /\ conn' = Len(net) + 1
    /\ Goto(p, Rest(p))
    /\ UNCHANGED <<connected, handlers, quit, done, ret, trace, tasks, connects, sent, panicked, debugSendFn, parsed, uiVars>>

\* lines 111-113
ConnectMarkConnected(p) ==
    /\ panicked = "" /\ At(p, "Connect.markConnected")
    /\ CanLock
    /\ connected' = TRUE
    /\ connects' = connects + 1
    /\ Goto(p, Rest(p))
    /\ UNCHANGED <<conn, handlers, quit, done, net, ret, trace, tasks, sent, panicked, debugSendFn, parsed, uiVars>>

\* lines 120-122: go c.readLoop(); return nil
ConnectReturn(p) ==
    /\ panicked = "" /\ At(p, "Connect.return")
    /\ pc' = Append([pc EXCEPT ![p] = Rest(p)], ReadLoopBody)
    /\ ret' = Append([ret EXCEPT ![p] = Append(@, Ret("Connect", "nil"))], <<>>)
    /\ trace' = Append(trace, <<>>)
    /\ UNCHANGED <<connVars, net, tasks, connects, sent, panicked, debugSendFn, parsed, uiVars>>

\* lines 254-261: the debug hook is called with cmd once the connected check
\* has passed, and only if one is set
HookRunsUnchecked(passed) == debugSendFn
HookRuns(passed) == passed /\ debugSendFn

\* what WriteString can leave in the buffer
WriteOutcomes(p, cmd) ==
    IF \E q \in Procs \ {p} : InSendRaw(q)
    THEN {cmd \o CRLF, Garbled}
    ELSE {cmd \o CRLF}

\* lines 263-266: c.writer.WriteString(cmd + "\r\n"), which fails once the
\* writer has failed before
WriteString(p, cmd) ==
    IF net[conn].werr
    THEN /\ Goto(p, Rest(p))
         /\ Log(p, [Ev("send") EXCEPT !.cmd = cmd, !.err = "write error",
                                      !.hook = HookRuns(TRUE)])
         /\ UNCHANGED net
    ELSE /\ \E item \in WriteOutcomes(p, cmd) :
              net' = [net EXCEPT ![conn].wbuf = Append(@, item)]
         /\ Goto(p, <<FCmd("sendRaw.flush", cmd)>> \o Rest(p))
         /\ UNCHANGED trace

\* lines 251-266: RLock, the connected check, then the hook if one is set,
\* else c.writer.WriteString(cmd + "\r\n")
SendRaw(p) ==
    /\ panicked = "" /\ At(p, "sendRaw")
    /\ LET cmd == Head(pc[p]).cmd
       IN  IF ~connected
           THEN /\ Goto(p, Rest(p))
                /\ Log(p, [Ev("send") EXCEPT !.cmd = cmd, !.err = "not connected",
                                             !.hook = HookRuns(FALSE)])
                /\ UNCHANGED net
           ELSE IF debugSendFn
           THEN /\ Goto(p, <<FCmd("sendRaw.hook", cmd)>> \o Rest(p))
                /\ UNCHANGED <<net, trace>>
           ELSE WriteString(p, cmd)
    /\ UNCHANGED <<connVars, ret, tasks, connects, sent, panicked, debugSendFn, parsed, uiVars>>

\* the capacity of m.ircMsgChan
BusCap == 100

\* an ircMessage: its Type and Data, and the handler or command it comes from;
\* the Timestamp, the time of day, is left out
Msg(type, data, from) == [Type |-> type, Data |-> data, from |-> from]

txtSend == <<"S","E","N","D"," ">>

\* lines 259-261: c.debugSendFn(cmd), called by the goroutine that writes and
\* before it writes.  The hook the UI sets in verbose mode (part_000, lines
\* 230-233) sends a DEBUG message on the bus and blocks while the bus is
\* full; a hook set without the UI returns at once.
SendRawHookSkipped(p) ==
    /\ panicked = "" /\ At(p, "sendRaw.hook")
    /\ Goto(p, <<FCmd("sendRaw.write", Head(pc[p]).cmd)>> \o Rest(p))
    /\ UNCHANGED <<connVars, net, ret, trace, tasks, connects, sent, panicked,
                   debugSendFn, parsed, uiVars>>
SendRawHook(p) ==
    /\ panicked = "" /\ At(p, "sendRaw.hook")
    /\ LET cmd == Head(pc[p]).cmd
       IN  /\ IF model = NoModel
              THEN UNCHANGED ircMsgChan
              ELSE /\ Len(ircMsgChan) < BusCap
                   /\ ircMsgChan' = Append(ircMsgChan,
                          Msg("DEBUG", [message |-> txtSend \o cmd], <<"SetDebugSend">>))
           /\ Log(p, [Ev("hook") EXCEPT !.cmd = cmd])
           /\ Goto(p, <<FCmd("sendRaw.write", cmd)>> \o Rest(p))
    /\ UNCHANGED <<connVars, net, ret, tasks, connects, sent, panicked,
                   debugSendFn, parsed, model, cmds, clients>>

\* lines 263-266, after the hook has returned
SendRawWrite(p) ==
    /\ panicked = "" /\ At(p, "sendRaw.write")
    /\ WriteString(p, Head(pc[p]).cmd)
    /\ UNCHANGED <<connVars, ret, tasks, connects, sent, panicked, debugSendFn, parsed, uiVars>>

\* line 267: c.writer.Flush() hands the buffer to the socket; RUnlock
SendRawFlush(p) ==
    /\ panicked = "" /\ At(p, "sendRaw.flush")
    /\ ~net[conn].werr
    /\ net[conn].wbuf = <<>> \/ net[conn].open
    /\ net' = [net EXCEPT ![conn].wire = @ \o net[conn].wbuf, ![conn].wbuf = <<>>]
    /\ Goto(p, Rest(p))
    /\ Log(p, [Ev("send") EXCEPT !.cmd = Head(pc[p]).cmd, !.err = "nil",
                                 !.hook = HookRuns(TRUE)])
    /\ UNCHANGED <<connVars, ret, tasks, connects, sent, panicked, debugSendFn, parsed, uiVars>>

\* line 267: the socket refuses the write (closed here, or reset by the peer)
SendRawFlushFailsAborts(p) ==
    /\ panicked = "" /\ At(p, "sendRaw.flush")
    /\ \/ net[conn].werr
       \/ net[conn].wbuf # <<>> /\ (~net[conn].open \/ ~net[conn].peerUp)
    /\ net' = [net EXCEPT ![conn].werr = TRUE]
    /\ Goto(p, IF Rest(p) # <<>> /\ Head(Rest(p)).op = "dispatch.handlers"
               THEN Tail(Rest(p)) ELSE Rest(p))
    /\ Log(p, [Ev("send") EXCEPT !.cmd = Head(pc[p]).cmd, !.err = "write error",
                                 !.hook = HookRuns(TRUE)])
    /\ UNCHANGED <<connVars, ret, tasks, connects, sent, panicked, debugSendFn, parsed, uiVars>>
SendRawFlushFails(p) ==
    /\ panicked = "" /\ At(p, "sendRaw.flush")
    /\ \/ net[conn].werr
       \/ net[conn].wbuf # <<>> /\ (~net[conn].open \/ ~net[conn].peerUp)
    /\ net' = [net EXCEPT ![conn].werr = TRUE]
    /\ Goto(p, Rest(p))
    /\ Log(p, [Ev("send") EXCEPT !.cmd = Head(pc[p]).cmd, !.err = "write error",
                                 !.hook = HookRuns(TRUE)])
    /\ UNCHANGED <<connVars, ret, tasks, connects, sent, panicked, debugSendFn, parsed, uiVars>>

\* lines 270-288: Raw, Join, Part, Privmsg return
Return(p) ==
    /\ panicked = "" /\ At(p, "return")
    /\ Goto(p, Rest(p))
    /\ Returns(p, Ret("Raw", "nil"))
    /\ UNCHANGED <<connVars, net, trace, tasks, connects, sent, panicked, debugSendFn, parsed, uiVars>>

\* Quit that marks the Conn disconnected when it raises the signal
QuitCloseQuitMarksDisconnected(p) ==
    /\ panicked = "" /\ At(p, "Quit.closeQuit")
    /\ IF quit = "closed"
       THEN Panic("Quit")
       ELSE /\ quit' = "closed"
            /\ connected' = FALSE
            /\ Goto(p, Rest(p))
            /\ UNCHANGED <<conn, handlers, done, net, ret, trace,
                           tasks, connects, sent, panicked, debugSendFn, parsed, uiVars>>

\* line 298: close(c.quit); closing a closed channel panics
QuitCloseQuit(p) ==
    /\ panicked = "" /\ At(p, "Quit.closeQuit")
    /\ IF quit = "closed"
       THEN Panic("Quit")
       ELSE /\ quit' = "closed"
            /\ Goto(p, Rest(p))
            /\ UNCHANGED <<connected, conn, handlers, done, net, ret, trace,
                           tasks, connects, sent, panicked, debugSendFn, parsed, uiVars>>

\* line 302: case <-c.done
QuitWaitDone(p) ==
    /\ panicked = "" /\ At(p, "Quit.wait")
    /\ done = "closed"
    /\ Goto(p, Rest(p))
    /\ UNCHANGED <<connVars, net, ret, trace, tasks, connects, sent, panicked, debugSendFn, parsed, uiVars>>

\* line 303: case <-time.After(2 * time.Second)
QuitWaitTimeout(p) ==
    /\ panicked = "" /\ At(p, "Quit.wait")
    /\ Goto(p, Rest(p))
    /\ UNCHANGED <<connVars, net, ret, trace, tasks, connects, sent, panicked, debugSendFn, parsed, uiVars>>

\* lines 306-309: the socket is closed if there is one, and Quit returns;
\* recorded: what Connected() says then, and the calls begun by then
QuitReturn(p) ==
    /\ panicked = "" /\ At(p, "Quit.return")
    /\ net' = IF conn # 0 THEN [net EXCEPT ![conn].open = FALSE] ELSE net
    /\ Goto(p, Rest(p))
    /\ Returns(p, [call |-> "Quit", st |-> "returned", flag |-> Connected,
                   begun |-> CallsBegun])
    /\ UNCHANGED <<connVars, trace, tasks, connects, sent, panicked, debugSendFn, parsed, uiVars>>

\* lines 143-146: the select on c.quit
ReadLoopSelectIgnoresQuit(p) ==
    /\ panicked = "" /\ At(p, "readLoop.select")
    /\ Goto(p, <<F("readLoop.read")>>)
    /\ UNCHANGED <<connVars, net, ret, trace, tasks, connects, sent, panicked, debugSendFn, parsed, uiVars>>
ReadLoopSelect(p) ==
    /\ panicked = "" /\ At(p, "readLoop.select")
    /\ Goto(p, IF quit = "closed" THEN ReadLoopExit ELSE <<F("readLoop.read")>>)
    /\ UNCHANGED <<connVars, net, ret, trace, tasks, connects, sent, panicked, debugSendFn, parsed, uiVars>>

\* lines 150-166: ReadString returns a line; blank lines are skipped, the
\* others parsed and dispatched
ReadLoopLine(p) ==
    /\ panicked = "" /\ At(p, "readLoop.read")
    /\ net[conn].inbox # <<>> /\ IsWholeLine(Head(net[conn].inbox))
    /\ net' = [net EXCEPT ![conn].inbox = Tail(@)]
    /\ LET line == TrimSpace(Head(net[conn].inbox))
           parsedLine == parseLine(line)
       IN  IF line = <<>>
           THEN /\ Goto(p, ReadLoopBody)
                /\ UNCHANGED trace
           ELSE /\ Goto(p, DispatchBody(parsedLine.Cmd, parsedLine) \o ReadLoopBody)
                /\ Log(p, [Ev("recv") EXCEPT !.cmd = line, !.line = parsedLine,
                                             !.flag = connected])
    /\ UNCHANGED <<connVars, ret, tasks, connects, sent, panicked, debugSendFn, parsed, uiVars>>

\* lines 148-155: the one-second read deadline passes with no line end read
ReadLoopTimeoutIsTerminal(p) ==
    /\ panicked = "" /\ At(p, "readLoop.read")
    /\ net[conn].inbox = <<>> /\ net[conn].open /\ net[conn].peerUp
    /\ Goto(p, ReadLoopExit)
    /\ UNCHANGED <<connVars, net, ret, trace, tasks, connects, sent, panicked, debugSendFn, parsed, uiVars>>
\* ReadString has taken the bytes that arrived out of the reader's buffer and
\* returns them with the timeout error (bufio.Reader.ReadString: "it returns
\* the data read before the error and the error itself"); line 154 continues
\* without looking at them
ReadLoopTimeout(p) ==
    /\ panicked = "" /\ At(p, "readLoop.read")
    /\ net[conn].open /\ net[conn].peerUp
    /\ NoLineToRead(net[conn].inbox)
    /\ net' = [net EXCEPT ![conn].inbox = <<>>]
    /\ Goto(p, ReadLoopBody)
    /\ UNCHANGED <<connVars, ret, trace, tasks, connects, sent, panicked, debugSendFn, parsed, uiVars>>

\* lines 151-158: any other read error (closed here, or by the peer)
ReadLoopReadError(p) ==
    /\ panicked = "" /\ At(p, "readLoop.read")
    /\ ~net[conn].open \/ (~net[conn].peerUp /\ net[conn].inbox = <<>>)
    /\ Goto(p, ReadLoopExit)
    /\ UNCHANGED <<connVars, net, ret, trace, tasks, connects, sent, panicked, debugSendFn, parsed, uiVars>>

\* lines 136-138
ReadLoopMarkDisconnected(p) ==
    /\ panicked = "" /\ At(p, "readLoop.markDisconnected")
    /\ CanLock
    /\ connected' = FALSE
    /\ Goto(p, Rest(p))
    /\ Log(p, [Ev("markDisconnected") EXCEPT !.epoch = connects])
    /\ UNCHANGED <<conn, handlers, quit, done, net, ret, tasks, connects, sent, panicked, debugSendFn, parsed, uiVars>>

\* lines 231-246: the registry is read under RLock, then a goroutine is
\* started for every handler found
DispatchHandlers(p) ==
    /\ panicked = "" /\ At(p, "dispatch.handlers")
    /\ LET event == Head(pc[p]).cmd
           line == Head(pc[p]).line
           started == StartedByDispatch(handlers, event)
       IN  /\ tasks' = tasks \o
                 [i \in 1..Len(started) |->
                    [h |-> started[i], event |-> event, by |-> p,
                     at |-> Len(trace[p]) + 1, st |-> "started",
                     saw |-> FALSE, epoch |-> 0, sent |-> <<>>]]
           /\ Log(p, [Ev("handlers") EXCEPT !.cmd = event, !.line = line,
                        !.started = started, !.reg = handlers, !.flag = connected])
    /\ Goto(p, Rest(p))
    /\ UNCHANGED <<connVars, net, ret, connects, sent, panicked, debugSendFn, parsed, uiVars>>

\* line 134: close(c.done); closing a closed channel panics
ReadLoopCloseDone(p) ==
    /\ panicked = "" /\ At(p, "readLoop.closeDone")
    /\ IF done = "closed"
       THEN Panic("readLoop")
       ELSE /\ done' = "closed"
            /\ Goto(p, <<>>)
            /\ Log(p, Ev("closeDone"))
            /\ Returns(p, Ret("readLoop", "nil"))
            /\ UNCHANGED <<connected, conn, handlers, quit, net, tasks, connects,
                           sent, panicked, debugSendFn, parsed, uiVars>>

\* a handler goroutine runs: it calls Connected() and finishes
RunHandler(i) ==
    /\ panicked = ""
    /\ i \in 1..Len(tasks) /\ tasks[i].st = "started"
    /\ tasks' = [tasks EXCEPT ![i].st = "done", ![i].saw = Connected,
                              ![i].epoch = connects]
    /\ UNCHANGED <<connVars, net, pc, ret, trace, connects, sent, panicked, debugSendFn, parsed, uiVars>>

\* the handlers registered so far
Registered(reg) == UNION {{reg[t][i] : i \in 1..Len(reg[t])} : t \in DOMAIN reg}

\* line 82: c.handlers[event] = append(c.handlers[event], handler)
WithHandlerFirst(reg, event, h) ==
    [t \in DOMAIN reg \cup {event} |->
        IF t = event THEN <<h>> \o HandlersOf(reg, event) ELSE reg[t]]
WithHandler(reg, event, h) ==
    [t \in DOMAIN reg \cup {event} |->
        IF t = event THEN Append(HandlersOf(reg, event), h) ELSE reg[t]]

\* lines 79-83: HandleFunc appends the handler to its tag's list
HandleFunc(event, h) ==
    /\ panicked = ""
    /\ CanLock
    /\ h = Cardinality(Registered(handlers)) + 1
    /\ handlers' = WithHandler(handlers, event, h)
    /\ UNCHANGED <<connected, conn, quit, done, net, pc, ret, trace, tasks,
                   connects, sent, panicked, debugSendFn, parsed, uiVars>>

(***************************************************************************)
(* The peer                                                                *)
(***************************************************************************)
PeerSends(s, raw) ==
    /\ panicked = ""
    /\ s \in 1..Len(net) /\ net[s].open /\ net[s].peerUp
    /\ sent < MaxInbound
    /\ sent' = sent + 1
    /\ net' = [net EXCEPT ![s].inbox = Append(@, raw)]
    /\ UNCHANGED <<connVars, pc, ret, trace, tasks, connects, panicked, debugSendFn, parsed, uiVars>>

PeerCloses(s) ==
    /\ panicked = ""
    /\ s \in 1..Len(net) /\ net[s].peerUp
    /\ net' = [net EXCEPT ![s].peerUp = FALSE]
    /\ UNCHANGED <<connVars, pc, ret, trace, tasks, connects, sent, panicked, debugSendFn, parsed, uiVars>>

(***************************************************************************)
(* Specifications                                                          *)
(***************************************************************************)
\* n calls, one after the other
RECURSIVE Repeat(_, _)
Repeat(n, body) == IF n = 0 THEN <<>> ELSE body \o Repeat(n - 1, body)

\* no UI: the Conn is driven directly
NoUI ==
    /\ ircMsgChan = <<>>
    /\ model = NoModel
    /\ cmds = NoCmds
    /\ clients = <<>>

\* Client(cfg), lines 69-76, HandleFunc calls that leave the registry reg,
\* and one goroutine for each sequence of calls about to be made
InitWith(reg, calls) ==
    /\ connected = FALSE
    /\ conn = 0
    /\ handlers = reg
    /\ quit = "open"
    /\ done = "open"
    /\ net = <<>>
    /\ pc = calls
    /\ ret = [i \in 1..Len(calls) |-> <<>>]
    /\ trace = [i \in 1..Len(calls) |-> <<>>]
    /\ tasks = <<>>
    /\ connects = 0
    /\ sent = 0
    /\ panicked = ""
    /\ parsed = <<>>

\* the registry after HandleFunc("DISCONNECTED", h1)
RegDisconnected == [t \in {sDISCONNECTED} |-> <<1>>]

Goodbye == <<"G","o","o","d","b","y","e","!">>

\* The life cycle: one goroutine calls Connect, again and again, another
\* calls Quit, again and again, on the same Conn, against a peer that stays
\* silent.  A call not yet made is a call whose first step is late.
Init ==
    InitWith(RegDisconnected,
             << Repeat(MaxConnectCalls, ConnectBody),
                Repeat(MaxQuitCalls, QuitBody(Goodbye)) >>)
    /\ debugSendFn = FALSE
    /\ NoUI

Next ==
    \/ \E p \in Procs :
         \/ ConnectDialFailed(p) \/ ConnectDialed(p)
         \/ ConnectMarkConnected(p) \/ ConnectReturn(p)
         \/ SendRaw(p) \/ SendRawFlush(p) \/ SendRawFlushFails(p)
         \/ QuitCloseQuit(p) \/ QuitWaitDone(p) \/ QuitWaitTimeout(p)
         \/ QuitReturn(p)
         \/ ReadLoopSelect(p) \/ ReadLoopTimeout(p)
         \/ ReadLoopReadError(p) \/ ReadLoopMarkDisconnected(p)
         \/ DispatchHandlers(p) \/ ReadLoopCloseDone(p)
    \/ \E i \in 1..Len(tasks) : RunHandler(i)

Spec == Init /\ [][Next]_vars

\* Dispatch: Connect is called once; HandleFunc is called at any time, the
\* peer sends lines and may close, the read loop parses and dispatches.  The
\* handler goroutines are started; what they do once started is left out.
HandlerTags == {sPING, sPRIVMSG, sStar}

InitDispatch == InitWith(<<>>, << ConnectBody >>) /\ debugSendFn = FALSE /\ NoUI

NextDispatch ==
    \/ \E p \in Procs :
         \/ ConnectDialed(p) \/ ConnectMarkConnected(p) \/ ConnectReturn(p)
         \/ SendRaw(p) \/ SendRawFlush(p) \/ SendRawFlushFails(p)
         \/ ReadLoopSelect(p) \/ ReadLoopLine(p) \/ ReadLoopTimeout(p)
         \/ ReadLoopReadError(p) \/ ReadLoopMarkDisconnected(p)
         \/ DispatchHandlers(p) \/ ReadLoopCloseDone(p)
    \/ \E event \in HandlerTags : \E h \in 1..MaxHandleFunc : HandleFunc(event, h)
    \/ \E s \in 1..Len(net) : \E raw \in InboundLines : PeerSends(s, raw)
    \/ \E s \in 1..Len(net) : PeerCloses(s)

SpecDispatch == InitDispatch /\ [][NextDispatch]_vars

\* Writing: Connect, Join and Privmsg are called by three goroutines at once,
\* with a debug hook set (verbose mode) or without.
Channel == <<"#", "c">>
Hello == <<"h", "i">>

InitWrite ==
    /\ InitWith(<<>>, << ConnectBody, RawBody(JoinCmd(Channel)),
                         RawBody(PrivmsgCmd(Channel, Hello)) >>)
    /\ debugSendFn \in BOOLEAN
    /\ NoUI

NextWrite ==
    \E p \in Procs :
        \/ ConnectDialed(p) \/ ConnectMarkConnected(p) \/ ConnectReturn(p)
        \/ SendRaw(p) \/ SendRawHook(p) \/ SendRawWrite(p)
        \/ SendRawFlush(p) \/ Return(p)
        \/ ReadLoopSelect(p) \/ ReadLoopTimeout(p)

SpecWrite == InitWrite /\ [][NextWrite]_vars

(***************************************************************************)
(* What the claims read                                                    *)
(***************************************************************************)
\* the calls of a method that have returned, as <<goroutine, number>>
Returned(call) ==
    UNION {{<<p, i>> : i \in {j \in 1..Len(ret[p]) : ret[p][j].call = call}} : p \in Procs}

\* the events of a kind in the traces, as <<goroutine, position>>
Events(e) ==
    UNION {{<<p, i>> : i \in {j \in 1..Len(trace[p]) : trace[p][j].e = e}} : p \in Procs}
EvAt(x) == trace[x[1]][x[2]]
\* the event just before
Before(x) == trace[x[1]][x[2] - 1]

\* the sends a goroutine has finished, in order
SendsOf(p) == SelectSeq(trace[p], LAMBDA ev : ev.e = "send")

IsPong(l) == Len(l) >= 4 /\ SubSeq(l, 1, 4) = sPONG
WireLines == UNION {{<<s, i>> : i \in 1..Len(net[s].wire)} : s \in 1..Len(net)}
BufferLines == UNION {{<<s, i>> : i \in 1..Len(net[s].wbuf)} : s \in 1..Len(net)}

(***************************************************************************)
(* C1 - C10                                                                *)
(***************************************************************************)

\* C1: at most one caller is inside the write section of sendRaw at a time,
\* and what reaches the buffer and the wire is whole CRLF-terminated lines.
C1_WritesNeverOverlap ==
    /\ Cardinality({p \in Procs : InSendRaw(p)}) <= 1
    /\ \A x \in WireLines : net[x[1]].wire[x[2]] # Garbled
    /\ \A x \in BufferLines : net[x[1]].wbuf[x[2]] # Garbled

\* C2: no call of Quit ends in a panic: every call returns normally.
C2_QuitReturnsNormally == panicked # "Quit"

\* C3: at the moment a call of Quit returns, Connected() is false.
C3_QuitLeavesDisconnected ==
    \A c \in Returned("Quit") : ~ret[c[1]][c[2]].flag

\* C4: once a call of Quit has returned, no socket dialed by a Connect call
\* that had begun by then is open.
C4_NoOpenSocketAfterQuit ==
    \A c \in Returned("Quit") : \A s \in 1..Len(net) :
        net[s].by[2] <= ret[c[1]][c[2]].begun[net[s].by[1]] => ~net[s].open

\* C5: when dispatch starts the handlers of a PING line, the send of the
\* PONG for that line has finished (written, or failed).
C5_PongBeforeHandlers ==
    /\ \A x \in Events("handlers") :
          EvAt(x).cmd = sPING =>
             /\ x[2] > 1
             /\ Before(x).e = "send"
             /\ Before(x).cmd = PongCmd(EvAt(x).line)
    /\ \A i \in 1..Len(tasks) :
          tasks[i].event = sPING =>
             /\ tasks[i].at > 1
             /\ trace[tasks[i].by][tasks[i].at - 1].e = "send"
C5_Witness ==
    \E i \in 1..Len(tasks) :
        /\ tasks[i].event = sPING
        /\ trace[tasks[i].by][tasks[i].at - 1].err = "nil"

\* the PONG each received PING asks for: PONG :<arg0>, or bare PONG
ExpectedPong(line) ==
    IF line.Args # <<>> THEN sPONG \o <<SP, ":">> \o line.Args[1] ELSE sPONG

\* every received line is followed by the one send it asks for, and nothing
\* else is a PONG send
PongAttempts ==
    /\ \A x \in Events("recv") :
          EvAt(x).line.Cmd = sPING =>
             IF Len(trace[x[1]]) > x[2]
             THEN /\ trace[x[1]][x[2] + 1].e = "send"
                  /\ trace[x[1]][x[2] + 1].cmd = ExpectedPong(EvAt(x).line)
             ELSE /\ At(x[1], "sendRaw") \/ At(x[1], "sendRaw.flush")
                  /\ Head(pc[x[1]]).cmd = ExpectedPong(EvAt(x).line)
    /\ \A x \in Events("send") :
          IsPong(EvAt(x).cmd) =>
             /\ x[2] > 1
             /\ Before(x).e = "recv"
             /\ Before(x).line.Cmd = sPING
    /\ \A p \in Procs :
          (At(p, "sendRaw") \/ At(p, "sendRaw.flush")) /\ IsPong(Head(pc[p]).cmd) =>
             /\ trace[p] # <<>>
             /\ trace[p][Len(trace[p])].e = "recv"
             /\ trace[p][Len(trace[p])].line.Cmd = sPING

PongsOnWire == {x \in WireLines : IsPong(net[x[1]].wire[x[2]])}
PongsSent(errs) == {x \in Events("send") : IsPong(EvAt(x).cmd) /\ EvAt(x).err \in errs}
\* the PINGs received while connected whose reply has been attempted
PingsAnswered ==
    {x \in Events("recv") :
        EvAt(x).line.Cmd = sPING /\ EvAt(x).flag /\ Len(trace[x[1]]) > x[2]}

\* C6, as claimed: each PING received while connected causes exactly one
\* outbound line, the PONG it asks for, and nothing else causes a PONG.
C6_OnePongLinePerPing ==
    /\ PongAttempts
    /\ Cardinality(PongsOnWire) = Cardinality(PingsAnswered)

\* C6, amended: each PING received causes exactly one send attempt, of the
\* PONG it asks for; nothing else causes a PONG send attempt; a PONG line is
\* on the wire for the attempts that succeeded and for no other.
C6_OnePongAttemptPerPing ==
    /\ PongAttempts
    /\ Cardinality(PongsOnWire) = Cardinality(PongsSent({"nil"}))
C6_Witness ==
    /\ \E x \in PongsSent({"nil"}) : EvAt(x).cmd = sPONG \o <<SP, ":", "x">>
    /\ \E x \in PongsSent({"nil"}) : EvAt(x).cmd = sPONG

\* how often handler h is among those a dispatch started
TimesStarted(x, h) ==
    Cardinality({k \in 1..Len(EvAt(x).started) : EvAt(x).started[k] = h})
\* how many goroutines run handler h for that dispatch
TasksOf(x, h) ==
    Cardinality({i \in 1..Len(tasks) :
                    tasks[i].by = x[1] /\ tasks[i].at = x[2] /\ tasks[i].h = h})

\* C7: dispatching a line whose tag is not * starts every handler registered
\* under the tag and every handler registered under * exactly once, and no
\* other handler.
C7_EachHandlerOnce ==
    \A x \in Events("handlers") :
        EvAt(x).cmd # sStar =>
           LET reg == EvAt(x).reg
               due == {h \in Registered(reg) :
                          \/ \E k \in 1..Len(HandlersOf(reg, EvAt(x).cmd)) :
                                HandlersOf(reg, EvAt(x).cmd)[k] = h
                          \/ \E k \in 1..Len(HandlersOf(reg, sStar)) :
                                HandlersOf(reg, sStar)[k] = h}
           IN  \A h \in 1..(MaxHandleFunc + 1) :
                  /\ TimesStarted(x, h) = (IF h \in due THEN 1 ELSE 0)
                  /\ TasksOf(x, h) = (IF h \in due THEN 1 ELSE 0)
C7_Witness ==
    /\ \E x \in Events("handlers") :
          /\ HandlersOf(EvAt(x).reg, EvAt(x).cmd) # <<>>
          /\ HandlersOf(EvAt(x).reg, sStar) # <<>>
          /\ Len(EvAt(x).started) = 3
    /\ \E x \in Events("handlers") :
          /\ HandlersOf(EvAt(x).reg, EvAt(x).cmd) = <<>>
          /\ Len(EvAt(x).started) >= 1

\* C8: on every socket the first line written is NICK <nick> and the second
\* USER <user> 0 * :<realname>, and both sends are over when Connect starts
\* the read loop.
C8_HandshakeFirst ==
    /\ \A s \in 1..Len(net) :
          /\ Len(net[s].wire) >= 1 => net[s].wire[1] = NickCmd \o CRLF
          /\ Len(net[s].wire) >= 2 => net[s].wire[2] = UserCmd \o CRLF
    /\ \A p \in Procs :
          At(p, "Connect.return") =>
             /\ Len(SendsOf(p)) >= 2
             /\ SendsOf(p)[Len(SendsOf(p)) - 1].cmd = NickCmd
             /\ SendsOf(p)[Len(SendsOf(p))].cmd = UserCmd

\* C9: the step in which a dial fails makes Connect return an error and
\* changes nothing else: the Conn's fields are as they were (Connected() is
\* still false if it was, no socket is stored), nothing is written, no
\* goroutine is started and nothing is dispatched.
C9_DialFailureChangesNothing ==
    [][ \A p \in Procs :
          (panicked' = "" /\ At(p, "Connect.dial") /\ Len(ret'[p]) > Len(ret[p])) =>
             /\ ret'[p][Len(ret'[p])] = Ret("Connect", "error")
             /\ UNCHANGED <<connected, conn, handlers, quit, done, net, trace, tasks>>
             /\ Len(pc') = Len(pc)
      ]_vars
C9_Witness ==
    \E c \in Returned("Connect") : ret[c[1]][c[2]].st = "error"

\* the order of the three steps of a read loop's exit
ExitInOrder ==
    /\ \A x \in Events("handlers") :
          EvAt(x).cmd = sDISCONNECTED =>
             x[2] > 1 /\ Before(x).e = "markDisconnected"
    /\ \A x \in Events("closeDone") :
          x[2] > 1 /\ Before(x).e = "handlers" /\ Before(x).cmd = sDISCONNECTED
    /\ \A p \in Procs :
          At(p, "readLoop.closeDone") =>
             /\ trace[p] # <<>>
             /\ trace[p][Len(trace[p])].e = "handlers"
             /\ trace[p][Len(trace[p])].cmd = sDISCONNECTED
\* a read loop that is exiting and has not yet dispatched DISCONNECTED
BeforeExitDispatch(p) ==
    \/ At(p, "readLoop.markDisconnected")
    \/ At(p, "dispatch.handlers") /\ Head(pc[p]).cmd = sDISCONNECTED

\* C10, as claimed: connected is set to false, then DISCONNECTED is
\* dispatched, then completion is raised; every DISCONNECTED handler sees
\* Connected() false; completion is never raised while an exit has its
\* dispatch still to do.
C10_ExitOrderAllSeeFalse ==
    panicked = "" =>
       /\ ExitInOrder
       /\ \A i \in 1..Len(tasks) :
             tasks[i].event = sDISCONNECTED /\ tasks[i].st = "done" => ~tasks[i].saw
       /\ \A p \in Procs : BeforeExitDispatch(p) => done = "open"

\* C10, amended: the three steps happen in that order; a DISCONNECTED handler
\* sees Connected() false unless Connect has set the flag again since that
\* exit cleared it; completion is never raised before some exit's
\* DISCONNECTED dispatch.
C10_ExitOrder ==
    panicked = "" =>
       /\ ExitInOrder
       /\ \A i \in 1..Len(tasks) :
             tasks[i].event = sDISCONNECTED /\ tasks[i].st = "done" /\ tasks[i].saw =>
                /\ tasks[i].at > 1
                /\ tasks[i].epoch > trace[tasks[i].by][tasks[i].at - 1].epoch
       /\ done = "closed" =>
             \E x \in Events("handlers") : EvAt(x).cmd = sDISCONNECTED
C10_Witness ==
    /\ \E i \in 1..Len(tasks) :
          tasks[i].event = sDISCONNECTED /\ tasks[i].st = "done" /\ ~tasks[i].saw
    /\ Events("closeDone") # {}
    /\ done = "closed"

(***************************************************************************)
(* Arbitrary inbound lines                                                 *)
(***************************************************************************)
\* every text of up to MaxLineLen characters out of ":", " " and "a"
AnyAlphabet == {":", " ", "a"}
AnyTexts == UNION {[1..n -> AnyAlphabet] : n \in 1..MaxLineLen}
\* the tags handlers are registered under: the empty tag, *, and A
AnyTags == { <<>>, sStar, <<"A">> }

\* the peer sends such a text as a line
PeerSendsAny(s, text) ==
    /\ panicked = ""
    /\ s \in 1..Len(net) /\ net[s].open /\ net[s].peerUp
    /\ sent < MaxAnyLines
    /\ sent' = sent + 1
    /\ net' = [net EXCEPT ![s].inbox = Append(@, text \o CRLF)]
    /\ UNCHANGED <<connVars, pc, ret, trace, tasks, connects, panicked,
                   debugSendFn, parsed, uiVars>>

InitAnyLine == InitWith(<<>>, << ConnectBody >>) /\ debugSendFn = FALSE /\ NoUI

NextAnyLine ==
    \/ \E p \in Procs :
         \/ ConnectDialed(p) \/ ConnectMarkConnected(p) \/ ConnectReturn(p)
         \/ SendRaw(p) \/ SendRawFlush(p)
         \/ ReadLoopSelect(p) \/ ReadLoopLine(p) \/ ReadLoopTimeout(p)
         \/ DispatchHandlers(p)
    \/ \E event \in AnyTags : \E h \in 1..MaxHandleFunc : HandleFunc(event, h)
    \/ \E s \in 1..Len(net) : \E text \in AnyTexts : PeerSendsAny(s, text)

SpecAnyLine == InitAnyLine /\ [][NextAnyLine]_vars

\* a prefix with nothing after it
PrefixOnly(raw) == HasPrefix(raw, ":") /\ \A i \in 1..Len(raw) : raw[i] # SP

\* every line received was parsed into a Line, with an empty Cmd when the
\* line is a prefix and nothing else
ParsedIntoLines ==
    \A x \in Events("recv") :
        /\ DOMAIN EvAt(x).line = {"Nick", "Src", "Cmd", "Args"}
        /\ PrefixOnly(EvAt(x).cmd) => EvAt(x).line.Cmd = <<>>
        /\ Len(trace[x[1]]) > x[2] =>
              /\ trace[x[1]][x[2] + 1].e = "handlers"
              /\ trace[x[1]][x[2] + 1].cmd = EvAt(x).line.Cmd

\* C16, as claimed: every non-empty line is parsed into a Line; a line that
\* yields no command gives an empty Cmd, and the dispatch of a Line with an
\* empty Cmd starts the handlers registered under * and no other.
C16_EmptyCmdOnlyWildcard ==
    /\ ParsedIntoLines
    /\ \A x \in Events("handlers") :
          EvAt(x).cmd = <<>> => EvAt(x).started = HandlersOf(EvAt(x).reg, sStar)

\* C16, amended: the same, where the dispatch of a Line with an empty Cmd
\* starts the handlers registered under the empty tag and those registered
\* under *, and no other.
C16_EmptyCmdEmptyTagAndWildcard ==
    /\ ParsedIntoLines
    /\ \A x \in Events("handlers") :
          EvAt(x).cmd = <<>> =>
             EvAt(x).started =
                HandlersOf(EvAt(x).reg, <<>>) \o HandlersOf(EvAt(x).reg, sStar)
C16_Witness ==
    \E x \in Events("handlers") :
        /\ Before(x).e = "recv" /\ PrefixOnly(Before(x).cmd)
        /\ EvAt(x).cmd = <<>>
        /\ HandlersOf(EvAt(x).reg, <<"A">>) # <<>>
        /\ HandlersOf(EvAt(x).reg, sStar) # <<>>
        /\ EvAt(x).started = HandlersOf(EvAt(x).reg, sStar)

(***************************************************************************)
(* parseLine on its own                                                    *)
(***************************************************************************)
\* lines of the form [:<prefix> ]<cmd> <p1> ... <pk> :<trailing>
Prefixes == { <<>>, <<"a">>, <<"a","!","b">>, <<"!","a">>, <<"a","!","b","!","c">> }
Commands == { <<"p","i","n","g">>, <<"0","0","1">>, <<"J","o">>, <<>> }
Middles == { <<"#","c">>, <<"x">>, <<>> }
MiddleSeqs == { <<>> } \cup { <<a>> : a \in Middles }
                 \cup { <<a, b>> : a \in Middles, b \in Middles }
Trailings == { <<>>, <<"h"," ","i">>, <<":","x">>, <<" ","y"," ">>, <<"z">> }
Forms ==
    [prefixed : {TRUE}, prefix : Prefixes, cmd : Commands,
     mids : MiddleSeqs, trailing : Trailings]
    \cup
    [prefixed : {FALSE}, prefix : { <<>> }, cmd : Commands,
     mids : MiddleSeqs, trailing : Trailings]

\* the text of such a line
RECURSIVE SpacedBefore(_)
SpacedBefore(ps) == IF ps = <<>> THEN <<>> ELSE <<SP>> \o Head(ps) \o SpacedBefore(Tail(ps))
Compose(f) ==
    (IF f.prefixed THEN <<":">> \o f.prefix \o <<SP>> ELSE <<>>)
    \o f.cmd \o SpacedBefore(f.mids) \o <<SP, ":">> \o f.trailing

\* one call of parseLine, lines 172-211, on a line of that form
ParseLineCall(f) ==
    /\ parsed = <<>>
    /\ parsed' = << [form |-> f, raw |-> Compose(f), line |-> parseLine(Compose(f))] >>
    /\ UNCHANGED <<connVars, net, pc, ret, trace, tasks, connects, sent, panicked,
                   debugSendFn, uiVars>>

InitParse == InitWith(<<>>, <<>>) /\ debugSendFn = FALSE /\ NoUI

NextParse == \E f \in Forms : ParseLineCall(f)

SpecParse == InitParse /\ [][NextParse]_vars

\* the part of a prefix before its first "!", empty when it has none
BeforeBang(prefix) ==
    IF \E i \in 1..Len(prefix) : prefix[i] = "!"
    THEN SubSeq(prefix, 1,
                (CHOOSE i \in 1..Len(prefix) :
                    prefix[i] = "!" /\ \A j \in 1..(i-1) : prefix[j] # "!") - 1)
    ELSE <<>>

\* C15: for a line :<prefix> <cmd> <p1> ... <pk> :<trailing>, parseLine gives
\* Src = prefix, Nick = the prefix up to its first "!", Cmd = cmd in upper
\* case and Args = p1, ..., pk, trailing, the trailing text verbatim; without
\* a prefix the same, with Src and Nick empty.
C15_ParseWellFormed ==
    \A i \in 1..Len(parsed) :
        LET f == parsed[i].form
            l == parsed[i].line
        IN  /\ l.Src = (IF f.prefixed THEN f.prefix ELSE <<>>)
            /\ l.Nick = (IF f.prefixed THEN BeforeBang(f.prefix) ELSE <<>>)
            /\ l.Cmd = ToUpper(f.cmd)
            /\ l.Args = f.mids \o <<f.trailing>>
C15_Witness ==
    \E i \in 1..Len(parsed) :
        /\ parsed[i].raw = <<":","a","!","b",SP,"p","i","n","g",SP,"#","c",SP,"x",SP,":","h",SP,"i">>
        /\ parsed[i].line = [Nick |-> <<"a">>, Src |-> <<"a","!","b">>, Cmd |-> sPING,
                             Args |-> << <<"#","c">>, <<"x">>, <<"h"," ","i">> >>]

\* the read loops that are in their for loop: started, and not yet exiting
LiveReadLoops ==
    {p \in Procs : pc[p] # <<>> /\
        pc[p][Len(pc[p])].op \in {"readLoop.select", "readLoop.read"}}

\* C11: no read loop's exit raises completion on a Conn whose completion is
\* already raised (the program does not die in close(c.done)); every read
\* loop that has ended dispatched DISCONNECTED exactly once; completion was
\* raised at most once.
C11_DisconnectedOnceCompletionOnce ==
    /\ panicked # "readLoop"
    /\ \A c \in Returned("readLoop") :
          Cardinality({x \in Events("handlers") :
                          x[1] = c[1] /\ EvAt(x).cmd = sDISCONNECTED}) = 1
    /\ Cardinality(Events("closeDone")) <= 1

\* C12: at most one read loop is running for the Conn.
C12_OneReadLoop == Cardinality(LiveReadLoops) <= 1

\* C13: the step of sendRaw taken while connected is false ends the call
\* with the error "not connected", leaves every socket as it was and does
\* not call the debug hook.
C13_NotConnectedWritesNothing ==
    [][ \A p \in Procs :
          (panicked' = "" /\ At(p, "sendRaw") /\ ~connected /\ pc'[p] # pc[p]) =>
             /\ net' = net
             /\ pc'[p] = Rest(p)
             /\ Len(trace'[p]) = Len(trace[p]) + 1
             /\ LET e == trace'[p][Len(trace'[p])]
                IN  /\ e.e = "send"
                    /\ e.cmd = Head(pc[p]).cmd
                    /\ e.err = "not connected"
                    /\ ~e.hook
      ]_vars
C13_Witness ==
    /\ debugSendFn
    /\ \E x \in Events("send") : EvAt(x).err = "not connected"
    /\ \E x \in Events("send") : EvAt(x).err = "nil" /\ EvAt(x).hook

\* C14: what a call of Raw, Join, Part or Privmsg gives back to its caller is
\* the outcome of its one send: the error when the send failed.
C14_FailureReturnedToCaller ==
    \A c \in Returned("Raw") :
        /\ Len(SendsOf(c[1])) = Len(ret[c[1]])
        /\ ret[c[1]][c[2]].st = SendsOf(c[1])[c[2]].err


(***************************************************************************)
(* The UI: the handlers it registers, the bus, and Update                  *)
(***************************************************************************)
\* addMessage keeps the last 500 messages
MaxMessages == 500

s353 == <<"3","5","3">>
s366 == <<"3","6","6">>
s401 == <<"4","0","1">>
s403 == <<"4","0","3">>
s404 == <<"4","0","4">>
s415 == <<"4","1","5">>
s433 == <<"4","3","3">>
s451 == <<"4","5","1">>
s471 == <<"4","7","1">>
s473 == <<"4","7","3">>
s474 == <<"4","7","4">>
s475 == <<"4","7","5">>
s477 == <<"4","7","7">>
s489 == <<"4","8","9">>
s520 == <<"5","2","0">>
sERROR == <<"E","R","R","O","R">>
sTLS == <<"T","L","S">>
sSSL == <<"S","S","L">>
sTrue == <<"t","r","u","e">>
txtDisconnected == <<"D","i","s","c","o","n","n","e","c","t","e","d"," ","f","r","o","m"," ","s","e","r","v","e","r">>
txtUnknownError == <<"U","n","k","n","o","w","n"," ","e","r","r","o","r">>
txtNotRegistered == <<"Y","o","u"," ","h","a","v","e"," ","n","o","t"," ","r","e","g","i","s","t","e","r","e","d">>
txtNickInUse == <<"N","i","c","k","n","a","m","e"," ","a","l","r","e","a","d","y"," ","i","n"," ","u","s","e",":"," ">>
txtTryingPlain == <<"A","t","t","e","m","p","t","i","n","g"," ","t","o"," ","r","e","c","o","n","n","e","c","t"," ","w","i","t","h","o","u","t"," ","T","L","S",".",".",".">>
txtReconnected == <<"R","e","c","o","n","n","e","c","t","e","d"," ","w","i","t","h","o","u","t"," ","T","L","S">>
txtDialFailed == <<"d","i","a","l"," ","f","a","i","l","e","d">>

\* the texts sendChannelError is called with, before the channel or nick
ChannelErrorText ==
    [code \in {s401, s403, s404, s471, s473, s474, s475} |->
        CASE code = s401 -> <<"N","o"," ","s","u","c","h"," ","n","i","c","k",":"," ">>
          [] code = s403 -> <<"N","o"," ","s","u","c","h"," ","c","h","a","n","n","e","l",":"," ">>
          [] code = s404 -> <<"C","a","n","n","o","t"," ","s","e","n","d"," ","t","o"," ","c","h","a","n","n","e","l",":"," ">>
          [] code = s471 -> <<"C","h","a","n","n","e","l"," ","i","s"," ","f","u","l","l",":"," ">>
          [] code = s473 -> <<"C","h","a","n","n","e","l"," ","i","s"," ","i","n","v","i","t","e","-","o","n","l","y",":"," ">>
          [] code = s474 -> <<"B","a","n","n","e","d"," ","f","r","o","m"," ","c","h","a","n","n","e","l",":"," ">>
          [] code = s475 -> <<"B","a","d"," ","c","h","a","n","n","e","l"," ","k","e","y",":"," ">>]

\* the tags setupIRCHandlers registers a handler under that reports names or
\* errors, and * for verbose mode; handler k is the closure registered under
\* UITags[k]
UITags == << s353, s366, sDISCONNECTED, sERROR, s401, s403, s404, s415, s433,
             s451, s471, s473, s474, s475, s477, s489, s520, sStar >>
\* the registry with verbose mode on
UIRegistryVerbose ==
    [t \in {UITags[k] : k \in 1..Len(UITags)} |->
        << CHOOSE k \in 1..Len(UITags) : UITags[k] = t >>]
\* the registry with verbose mode off: no handler under *
UIRegistry == [t \in DOMAIN UIRegistryVerbose \ {sStar} |-> UIRegistryVerbose[t]]

\* strings.Contains(s, sub)
Contains(s, sub) ==
    \E i \in 1..(Len(s) - Len(sub) + 1) : SubSeq(s, i, i + Len(sub) - 1) = sub

\* sendError, lines 368-370
sendError(from, message) == << Msg("ERROR", [message |-> message], from) >>

\* the 433 handler reporting whatever the reply holds
nickInUseAlways(from, Args) == sendError(from, txtNickInUse \o Join(Args))
\* lines 435-439: the 433 handler; cfg.NewNick is not called, nothing is
\* written on the Conn
nickInUse(from, Args) ==
    IF Len(Args) >= 2 THEN sendError(from, txtNickInUse \o Args[2]) ELSE <<>>

\* lines 389-393
permanentErrorsWith404 == {s401, s403, s404}
permanentErrors == {s401, s403}

\* sendChannelError, lines 395-406
sendChannelError(errorCode, message, channel) ==
    << Msg("ERROR",
           IF errorCode \in permanentErrors
           THEN [message |-> message, channel |-> channel, remove_channel |-> sTrue]
           ELSE [message |-> message, channel |-> channel],
           errorCode) >>

\* lines 382: the ERROR text speaks of TLS
IsTLSMismatchTLSOnly(errMsg) == Contains(errMsg, sTLS)
IsTLSMismatch(errMsg) == Contains(errMsg, sTLS) \/ Contains(errMsg, sSSL)

genericErrorCodes == {s477, s489, s520}

\* fmt.Sprintf("RECV CMD=%s NICK=%s SRC=%s ARGS=%v", ...), line 225
RecvText(line) ==
    <<"R","E","C","V"," ","C","M","D","=">> \o line.Cmd
    \o <<" ","N","I","C","K","=">> \o line.Nick
    \o <<" ","S","R","C","=">> \o line.Src
    \o <<" ","A","R","G","S","=","[">> \o Join(line.Args) \o <<"]">>

\* the handler registered under tag, called with line: the messages it sends
UIHandler(tag, line) ==
    LET Args == line.Args
        n == Len(Args)
    IN  CASE tag = sStar -> << Msg("DEBUG", [message |-> RecvText(line)], tag) >>
          [] tag = s353 ->
               IF n >= 4
               THEN << Msg("NAMES", [channel |-> Args[3], users |-> Args[4]], tag) >>
               ELSE <<>>
          [] tag = s366 ->
               IF n >= 2
               THEN << Msg("ENDOFNAMES", [channel |-> Args[2]], tag) >>
               ELSE <<>>
          [] tag = sDISCONNECTED -> sendError(tag, txtDisconnected)
          [] tag = sERROR ->
               LET errMsg == IF n > 0 THEN Join(Args) ELSE txtUnknownError
               IN  IF IsTLSMismatch(errMsg)
                   THEN << Msg("TLS_ERROR", [message |-> errMsg], tag) >>
                   ELSE sendError(tag, errMsg)
          [] tag \in DOMAIN ChannelErrorText ->
               IF n >= 2
               THEN sendChannelError(tag, ChannelErrorText[tag] \o Args[2], Args[2])
               ELSE <<>>
          [] tag = s415 ->
               IF n >= 2
               THEN sendChannelError(tag, Join(SubSeq(Args, 2, n)), Args[2])
               ELSE <<>>
          [] tag = s433 -> nickInUse(tag, Args)
          [] tag = s451 ->
               IF n >= 1 THEN sendError(tag, Join(Args))
               ELSE sendError(tag, txtNotRegistered)
          [] tag \in genericErrorCodes ->
               IF n >= 2 THEN sendError(tag, Join(SubSeq(Args, 2, n))) ELSE <<>>

\* a handler goroutine of the UI runs: send blocks while the bus is full
RunUIHandler(i) ==
    /\ panicked = ""
    /\ i \in 1..Len(tasks) /\ tasks[i].st = "started"
    /\ LET line == trace[tasks[i].by][tasks[i].at].line
           msgs == UIHandler(UITags[tasks[i].h], line)
       IN  /\ Len(ircMsgChan) + Len(msgs) <= BusCap
           /\ ircMsgChan' = ircMsgChan \o msgs
           /\ tasks' = [tasks EXCEPT ![i].st = "done", ![i].sent = msgs]
    /\ UNCHANGED <<connVars, net, pc, ret, trace, connects, sent, panicked,
                   debugSendFn, parsed, model, cmds, clients>>

\* initialModel, lines 144-209: the port decides on TLS
InitialModel(useTLS) ==
    [ useTLS       |-> useTLS,
      irc          |-> 1,        \* m.irc: which of the clients
      channels     |-> <<>>,
      channel      |-> <<>>,
      channelUsers |-> <<>>,     \* a map: channel to the list of its users
      messages     |-> <<>> ]

\* Init, lines 823-825: connectIRC and waitForIRCMessage are started
InitialCmds == [NoCmds EXCEPT !.wait = 1, !.connect = 1]

\* addMessage, lines 836-843; what is kept of a message is how it was
\* formatted and its text
addMessage(m, fmt, body) ==
    LET all == Append(m.messages, [fmt |-> fmt, body |-> body])
    IN  [m EXCEPT !.messages =
            IF Len(all) > MaxMessages
            THEN SubSeq(all, Len(all) - MaxMessages + 1, Len(all)) ELSE all]

\* data[key] of a Go map: the empty string when the key is missing
Get(data, key) == IF key \in DOMAIN data THEN data[key] ELSE <<>>

\* handleNames, lines 1592-1603
handleNames(m, data) ==
    LET channel == Get(data, "channel")
        names == Split(Get(data, "users"))
    IN  [m EXCEPT !.channelUsers =
            [c \in DOMAIN m.channelUsers \cup {channel} |->
                IF c # channel THEN m.channelUsers[c]
                ELSE IF channel \in DOMAIN m.channelUsers
                     THEN m.channelUsers[channel] \o names
                     ELSE names]]

\* strings.TrimLeft(user, "@+%~&")
ModePrefixes == {"@", "+", "%", "~", "&"}
RECURSIVE TrimLeftCutset(_)
TrimLeftCutset(user) ==
    IF Len(user) > 0 /\ user[1] \in ModePrefixes
    THEN TrimLeftCutset(Tail(user)) ELSE user

\* the loop of handleEndOfNames, lines 1612-1619
RECURSIVE CleanedList(_, _)
CleanedList(users, cleanedList) ==
    IF users = <<>> THEN cleanedList
    ELSE LET cleanUser == TrimLeftCutset(Head(users))
         IN  CleanedList(Tail(users),
                 IF cleanUser # <<>>
                    /\ \A k \in 1..Len(cleanedList) : cleanedList[k] # cleanUser
                 THEN Append(cleanedList, cleanUser)
                 ELSE cleanedList)

\* handleEndOfNames, lines 1605-1626; updateSidebars redraws from the model
handleEndOfNames(m, data) ==
    LET channel == Get(data, "channel")
    IN  IF channel \in DOMAIN m.channelUsers
        THEN [m EXCEPT !.channelUsers[channel] = CleanedList(@, <<>>)]
        ELSE m

\* removeChannel, lines 663-688
removeChannel(m, channel) ==
    LET newChannels == SelectSeq(m.channels, LAMBDA ch : ch # channel)
    IN  [m EXCEPT !.channels = newChannels,
                  !.channelUsers = [c \in DOMAIN m.channelUsers \ {channel} |->
                                       m.channelUsers[c]],
                  !.channel = IF m.channel # channel THEN m.channel
                              ELSE IF Len(newChannels) > 0 THEN newChannels[1]
                              ELSE <<>>]

\* handleError, lines 1670-1682
handleError(m, data) ==
    LET shown == addMessage(m, "err", Get(data, "message"))
    IN  IF Get(data, "remove_channel") = sTrue /\ Get(data, "channel") # <<>>
        THEN removeChannel(shown, Get(data, "channel"))
        ELSE shown

\* handleTLSError, lines 1684-1698: what it does to the model; the goroutine
\* it starts when m.useTLS is set is started by Update below
handleTLSError(m, data) ==
    LET shown == addMessage(m, "err", Get(data, "message"))
    IN  IF m.useTLS THEN addMessage(shown, "sys", txtTryingPlain) ELSE shown

\* handleSystemMessage, lines 1421-1424
handleSystemMessage(m, data) == addMessage(m, "sys", Get(data, "message"))

\* handleIRCMessage, lines 845-855, with the handlers of lines 1386-1408
handleIRCMessage(m, msg) ==
    CASE msg.Type = "NAMES" -> handleNames(m, msg.Data)
      [] msg.Type = "ENDOFNAMES" -> handleEndOfNames(m, msg.Data)
      [] msg.Type = "ERROR" -> handleError(m, msg.Data)
      [] msg.Type = "TLS_ERROR" -> handleTLSError(m, msg.Data)
      [] msg.Type = "RECONNECTED" -> handleSystemMessage(m, msg.Data)
      [] msg.Type = "DEBUG" -> addMessage(m, "debug", Get(msg.Data, "message"))
      [] OTHER -> m

\* waitForIRCMessage receiving the newest message of the bus, not the oldest
WaitForIRCMessageNewest ==
    /\ panicked = ""
    /\ cmds.wait > 0
    /\ ircMsgChan # <<>>
    /\ ircMsgChan' = SubSeq(ircMsgChan, 1, Len(ircMsgChan) - 1)
    /\ cmds' = [cmds EXCEPT !.wait = @ - 1,
                            !.msgs = Append(@, ircMsgChan[Len(ircMsgChan)])]
    /\ UNCHANGED <<connVars, net, pc, ret, trace, tasks, connects, sent, panicked,
                   debugSendFn, parsed, model, clients>>

\* waitForIRCMessage, lines 495-499: a waiting command receives the head of
\* the bus and hands it to the program
WaitForIRCMessage ==
    /\ panicked = ""
    /\ cmds.wait > 0
    /\ ircMsgChan # <<>>
    /\ ircMsgChan' = Tail(ircMsgChan)
    /\ cmds' = [cmds EXCEPT !.wait = @ - 1, !.msgs = Append(@, Head(ircMsgChan))]
    /\ UNCHANGED <<connVars, net, pc, ret, trace, tasks, connects, sent, panicked,
                   debugSendFn, parsed, model, clients>>

\* the program is in Update for a key press, lines 1204-1208, inside
\* handleKey: it takes no other message until Update has returned
InHandleKey ==
    \E p \in Procs :
        /\ pc[p] # <<>>
        /\ pc[p][Len(pc[p])].op = "handleKey.return"
        /\ Head(pc[p]).op # "handleKey"

\* the sequence without its k-th element
Without(seq, k) == SubSeq(seq, 1, k - 1) \o SubSeq(seq, k + 1, Len(seq))

\* Update, lines 1193-1199, on the k-th of the messages the commands hold for
\* the program, which takes them one at a time, in any order.  On RECONNECT
\* the model is returned as it is with the reconnect command; otherwise the
\* message is handled and the bus waited on again.  Update has a value
\* receiver: m is a copy of the program's model, the program holds next what
\* Update returns, and the reconnect command's closure holds the address of
\* the copy.
Update(k) ==
    /\ panicked = ""
    /\ ~InHandleKey
    /\ k \in 1..Len(cmds.msgs)
    /\ LET msg == cmds.msgs[k]
       IN  IF msg.Type = "RECONNECT"
           THEN /\ cmds' = [cmds EXCEPT !.msgs = Without(@, k),
                                        !.reconnect = Append(@, [m |-> model, at |-> "Quit", old |-> 0])]
                /\ UNCHANGED model
           ELSE /\ model' = handleIRCMessage(model, msg)
                /\ cmds' = [cmds EXCEPT
                              !.msgs = Without(@, k),
                              !.wait = @ + 1,
                              !.timer = IF msg.Type = "TLS_ERROR" /\ model.useTLS
                                        THEN @ + 1 ELSE @]
    /\ UNCHANGED <<connVars, net, pc, ret, trace, tasks, connects, sent, panicked,
                   debugSendFn, parsed, ircMsgChan, clients>>


\* connectIRC, lines 501-512: the command Init started returns once Connect
\* has; an error is handed to the program as an ERROR message, nil is not
ConnectIRCReturns(p) ==
    /\ panicked = ""
    /\ cmds.connect > 0
    /\ p \in Procs /\ pc[p] = <<>> /\ ret[p] # <<>> /\ ret[p][1].call = "Connect"
    /\ cmds' = [cmds EXCEPT
                  !.connect = @ - 1,
                  !.msgs = IF ret[p][1].st = "nil" THEN @
                           ELSE Append(@, Msg("ERROR", [message |-> txtDialFailed],
                                              <<"connectIRC">>))]
    /\ UNCHANGED <<connVars, net, pc, ret, trace, tasks, connects, sent, panicked,
                   debugSendFn, parsed, ircMsgChan, model, clients>>

\* Client(cfg) for a Conn that is not followed step by step: the Config's
\* SSL and whether it has an SSLConfig, the Conn's own registry, empty, how
\* often Quit has returned on it, whether Connect has dialed, and the lines
\* written on its socket by the commands of the UI
NewClient(ssl) ==
    [SSL |-> ssl, SSLConfig |-> ssl, handlers |-> <<>>, quits |-> 0, connects |-> 0,
     wrote |-> <<>>]

\* the program as main starts it, lines 1775-1799: the model, its Conn with
\* the UI's handlers registered, and the commands of Init
InitUI(useTLS) ==
    /\ InitWith(UIRegistry, << ConnectBody >>)
    /\ debugSendFn = FALSE
    /\ ircMsgChan = <<>>
    /\ model = InitialModel(useTLS)
    /\ cmds = InitialCmds
    /\ clients = << NewClient(useTLS) >>

(***************************************************************************)
(* The names of a channel                                                  *)
(***************************************************************************)
\* the server lists the users of #c in two 353 replies and ends the list
InNames1 == <<":","s",SP>> \o s353 \o <<SP,"m","e",SP,"=",SP,"#","c",SP,":","@","a",SP,"b">> \o CRLF
InNames2 == <<":","s",SP>> \o s353 \o <<SP,"m","e",SP,"=",SP,"#","c",SP,":","b",SP,"+","c">> \o CRLF
InEndOfNames == <<":","s",SP>> \o s366 \o <<SP,"m","e",SP,"#","c",SP,":","E","n","d">> \o CRLF
NamesScript == << InNames1, InNames2, InEndOfNames >>
\* the nicks announced, in the order first seen
Announced == << <<"a">>, <<"b">>, <<"c">> >>

\* the peer sends the next line of the script
PeerSendsNames(s) ==
    /\ panicked = ""
    /\ s \in 1..Len(net) /\ net[s].open /\ net[s].peerUp
    /\ sent < Len(NamesScript)
    /\ sent' = sent + 1
    /\ net' = [net EXCEPT ![s].inbox = Append(@, NamesScript[sent + 1])]
    /\ UNCHANGED <<connVars, pc, ret, trace, tasks, connects, panicked,
                   debugSendFn, parsed, uiVars>>

InitNames == InitUI(FALSE)

NextNames ==
    \/ \E p \in Procs :
         \/ ConnectDialed(p) \/ ConnectMarkConnected(p) \/ ConnectReturn(p)
         \/ SendRaw(p) \/ SendRawFlush(p)
         \/ ReadLoopSelect(p) \/ ReadLoopLine(p) \/ ReadLoopTimeout(p)
         \/ DispatchHandlers(p)
         \/ ConnectIRCReturns(p)
    \/ \E i \in 1..Len(tasks) : RunUIHandler(i)
    \/ WaitForIRCMessage
    \/ \E k \in 1..Len(cmds.msgs) : Update(k)
    \/ \E s \in 1..Len(net) : PeerSendsNames(s)

SpecNames == InitNames /\ [][NextNames]_vars

\* every line of the script was received and dispatched, every handler
\* started has run, and every message was consumed
NamesConsumed ==
    /\ sent = Len(NamesScript)
    /\ \A s \in 1..Len(net) : net[s].inbox = <<>>
    /\ Len(tasks) = Len(NamesScript)
    /\ \A i \in 1..Len(tasks) : tasks[i].st = "done"
    /\ ircMsgChan = <<>>
    /\ cmds.msgs = <<>>

\* C17: once the 353 replies for a channel and then its 366 reply have been
\* received and their events consumed, the channel's user list holds every
\* announced nick exactly once, mode prefixes removed, in first-seen order,
\* in whatever order the handlers started for the replies enqueue.
C17_NamesCleanInEveryOrder ==
    NamesConsumed =>
        /\ Channel \in DOMAIN model.channelUsers
        /\ model.channelUsers[Channel] = Announced


(***************************************************************************)
(* Error replies                                                           *)
(***************************************************************************)
\* lines the peer sends, over the whole run (SpecErrors)
MaxErrorLines == 2

\* the numerics the UI reports as errors
ErrorCodes == {s401, s403, s404, s415, s433, s451, s471, s473, s474, s475,
               s477, s489, s520}
\* each numeric with no argument, with one, and with three
ErrorReplies ==
    UNION {{ <<":","s",SP>> \o code,
             <<":","s",SP>> \o code \o <<SP,"m","e">>,
             <<":","s",SP>> \o code \o <<SP,"m","e",SP,"#","c",SP,":","n","o">> }
           : code \in ErrorCodes}
\* the ERROR command: with no argument, and with texts that do or do not
\* speak of TLS
ErrorCommands ==
    { sERROR,
      sERROR \o <<SP,":","b","y","e">>,
      sERROR \o <<SP,":","n","o",SP,"T","L","S">>,
      sERROR \o <<SP,":","S","S","L",SP,"o","n","l","y">>,
      sERROR \o <<SP,"S","S",SP,"L">>,
      sERROR \o <<SP,":","t","l","s">> }
ErrorLines == ErrorReplies \cup ErrorCommands

PeerSendsError(s, text) ==
    /\ panicked = ""
    /\ s \in 1..Len(net) /\ net[s].open /\ net[s].peerUp
    /\ sent < MaxErrorLines
    /\ sent' = sent + 1
    /\ net' = [net EXCEPT ![s].inbox = Append(@, text \o CRLF)]
    /\ UNCHANGED <<connVars, pc, ret, trace, tasks, connects, panicked,
                   debugSendFn, parsed, uiVars>>

\* The program on a plaintext port: the dial may fail; the peer sends error
\* replies and ERROR commands and may close the connection.
InitErrors == InitUI(FALSE)

NextErrors ==
    \/ \E p \in Procs :
         \/ ConnectDialFailed(p) \/ ConnectDialed(p)
         \/ ConnectMarkConnected(p) \/ ConnectReturn(p)
         \/ SendRaw(p) \/ SendRawFlush(p)
         \/ ReadLoopSelect(p) \/ ReadLoopLine(p) \/ ReadLoopTimeout(p)
         \/ ReadLoopReadError(p) \/ ReadLoopMarkDisconnected(p)
         \/ DispatchHandlers(p) \/ ReadLoopCloseDone(p)
         \/ ConnectIRCReturns(p)
    \/ \E i \in 1..Len(tasks) : RunUIHandler(i)
    \/ WaitForIRCMessage
    \/ \E k \in 1..Len(cmds.msgs) : Update(k)
    \/ \E s \in 1..Len(net) : \E text \in ErrorLines : PeerSendsError(s, text)
    \/ \E s \in 1..Len(net) : PeerCloses(s)

SpecErrors == InitErrors /\ [][NextErrors]_vars

\* the handler goroutines that have run, and the line each was started with
Ran == {i \in 1..Len(tasks) : tasks[i].st = "done"}
LineOf(i) == trace[tasks[i].by][tasks[i].at].line
\* the messages not yet handled by Update
Pending == {ircMsgChan[k] : k \in 1..Len(ircMsgChan)}
               \cup {cmds.msgs[k] : k \in 1..Len(cmds.msgs)}
CarriesRemoveChannel(msg) ==
    "remove_channel" \in DOMAIN msg.Data /\ msg.Data.remove_channel = sTrue

\* C18: an ERROR message carries remove_channel="true" if and only if it was
\* produced from a 401 or 403 reply with at least two arguments; the ERROR
\* messages produced from the other numerics, from the ERROR command, from
\* DISCONNECTED and from a failed dial never carry the remove_channel key.
C18_RemoveChannelOnly401403 ==
    /\ \A i \in Ran : \A k \in 1..Len(tasks[i].sent) :
          LET msg == tasks[i].sent[k]
          IN  msg.Type = "ERROR" =>
                /\ CarriesRemoveChannel(msg)
                      <=> (tasks[i].event \in {s401, s403} /\ Len(LineOf(i).Args) >= 2)
                /\ tasks[i].event \notin {s401, s403}
                      => "remove_channel" \notin DOMAIN msg.Data
    /\ \A msg \in Pending :
          "remove_channel" \in DOMAIN msg.Data =>
              msg.Type = "ERROR" /\ msg.from \in {s401, s403}
C18_Witness ==
    \E i \in Ran :
        /\ tasks[i].event = s403
        /\ Len(tasks[i].sent) = 1
        /\ CarriesRemoveChannel(tasks[i].sent[1])
        /\ tasks[i].sent[1].Data.channel = Channel

\* C19: each inbound ERROR command line produces exactly one message: a
\* TLS_ERROR when the arguments joined with spaces contain "TLS" or "SSL",
\* an ERROR otherwise, with the text "Unknown error" when there are no
\* arguments.
C19_OneMessagePerErrorLine ==
    /\ \A x \in Events("handlers") :
          EvAt(x).cmd = sERROR => Len(EvAt(x).started) = 1
    /\ \A i \in Ran :
          tasks[i].event = sERROR =>
             LET args == LineOf(i).Args
                 text == IF Len(args) = 0 THEN txtUnknownError ELSE Join(args)
                 tls == Len(args) > 0
                        /\ (Contains(Join(args), sTLS) \/ Contains(Join(args), sSSL))
             IN  /\ Len(tasks[i].sent) = 1
                 /\ tasks[i].sent[1].Type = IF tls THEN "TLS_ERROR" ELSE "ERROR"
                 /\ tasks[i].sent[1].Data = [message |-> text]
C19_Witness ==
    \E i \in Ran :
        /\ tasks[i].event = sERROR
        /\ Contains(Join(LineOf(i).Args), sSSL)
        /\ ~Contains(Join(LineOf(i).Args), sTLS)
        /\ tasks[i].sent[1].Type = "TLS_ERROR"


(***************************************************************************)
(* The fallback from TLS                                                   *)
(***************************************************************************)
\* ERROR commands the servers send over the whole run (SpecTLS)
MaxTLSErrors == 3

\* the Connection in use: the one built last
ActiveClient ==
    clients[CHOOSE k \in 1..Len(clients) :
               /\ clients[k].connects > 0
               /\ \A j \in (k + 1)..Len(clients) : clients[j].connects = 0]

\* the ERROR commands a server sends about TLS, and one that is not
TLSErrorCommands ==
    { sERROR \o <<SP,":","n","o",SP,"T","L","S">>,
      sERROR \o <<SP,":","b","y","e">> }

\* the server of the Connection in use sends an ERROR command; the read loop
\* dispatches it (irc.go, lines 229-241) and the ERROR handler registered on
\* that Connection, if there is one, sends its message on the bus
ErrorHandlerRuns(text) ==
    /\ panicked = ""
    /\ ActiveClient.connects > 0 /\ ActiveClient.quits = 0
    /\ sent < MaxTLSErrors
    /\ sent' = sent + 1
    /\ LET msgs == IF HandlersOf(ActiveClient.handlers, sERROR) = <<>> THEN <<>>
                   ELSE UIHandler(sERROR, parseLine(text))
       IN  /\ Len(ircMsgChan) + Len(msgs) <= BusCap
           /\ ircMsgChan' = ircMsgChan \o msgs
    /\ UNCHANGED <<connVars, net, pc, ret, trace, tasks, connects, panicked,
                   debugSendFn, parsed, model, cmds, clients>>

\* the goroutine of handleTLSError, lines 1689-1696: after half a second it
\* sends RECONNECT on the bus
ReconnectTimer ==
    /\ panicked = ""
    /\ cmds.timer > 0
    /\ Len(ircMsgChan) < BusCap
    /\ ircMsgChan' = Append(ircMsgChan, Msg("RECONNECT", <<>>, <<"handleTLSError">>))
    /\ cmds' = [cmds EXCEPT !.timer = @ - 1]
    /\ UNCHANGED <<connVars, net, pc, ret, trace, tasks, connects, sent, panicked,
                   debugSendFn, parsed, model, clients>>

\* The command of reconnectWithoutTLS, lines 515-545, step by step, on the
\* copy m of the model its closure holds; the program's model is not the
\* copy.  at is the call the command makes next, old the Conn it has called
\* Quit on.

\* lines 517-519: Quit("") on m.irc, which panics when Quit was called on that
\* Conn before (close of the closed c.quit); when Quit returns the Conn's
\* socket is closed (irc.go, lines 306-308)
ReconnectQuit(k) ==
    /\ panicked = ""
    /\ k \in 1..Len(cmds.reconnect) /\ cmds.reconnect[k].at = "Quit"
    /\ LET m == cmds.reconnect[k].m
       IN  IF clients[m.irc].quits > 0
           THEN Panic("Quit")
           ELSE /\ clients' = [clients EXCEPT ![m.irc].quits = @ + 1]
                /\ cmds' = [cmds EXCEPT !.reconnect[k].at = "Client",
                                        !.reconnect[k].old = m.irc]
                /\ UNCHANGED <<connVars, net, pc, ret, trace, tasks, connects, sent,
                               panicked, debugSendFn, parsed, ircMsgChan, model>>

\* lines 521-529: a new Conn with SSL off and no SSLConfig; m.irc and
\* m.useTLS are set in the copy
ReconnectClient(k) ==
    /\ panicked = ""
    /\ k \in 1..Len(cmds.reconnect) /\ cmds.reconnect[k].at = "Client"
    /\ clients' = Append(clients, NewClient(FALSE))
    /\ cmds' = [cmds EXCEPT !.reconnect[k].at = "setupIRCHandlers",
                            !.reconnect[k].m.irc = Len(clients) + 1,
                            !.reconnect[k].m.useTLS = FALSE]
    /\ UNCHANGED <<connVars, net, pc, ret, trace, tasks, connects, sent, panicked,
                   debugSendFn, parsed, ircMsgChan, model>>

\* setupIRCHandlers that registers nothing
ReconnectSetupNothing(k) ==
    /\ panicked = ""
    /\ k \in 1..Len(cmds.reconnect) /\ cmds.reconnect[k].at = "setupIRCHandlers"
    /\ cmds' = [cmds EXCEPT !.reconnect[k].at = "Connect"]
    /\ UNCHANGED <<connVars, net, pc, ret, trace, tasks, connects, sent, panicked,
                   debugSendFn, parsed, ircMsgChan, model, clients>>

\* line 530: m.setupIRCHandlers() registers the handlers of lines 235-487 on
\* the new Conn
ReconnectSetup(k) ==
    /\ panicked = ""
    /\ k \in 1..Len(cmds.reconnect) /\ cmds.reconnect[k].at = "setupIRCHandlers"
    /\ clients' = [clients EXCEPT ![cmds.reconnect[k].m.irc].handlers = UIRegistry]
    /\ cmds' = [cmds EXCEPT !.reconnect[k].at = "Connect"]
    /\ UNCHANGED <<connVars, net, pc, ret, trace, tasks, connects, sent, panicked,
                   debugSendFn, parsed, ircMsgChan, model>>

\* lines 532-545: Connect on the new Conn, which dials or fails; the command
\* returns RECONNECTED or ERROR to the program
ReconnectConnect(k, dialed) ==
    /\ panicked = ""
    /\ k \in 1..Len(cmds.reconnect) /\ cmds.reconnect[k].at = "Connect"
    /\ clients' = [clients EXCEPT ![cmds.reconnect[k].m.irc].connects =
                                    IF dialed THEN 1 ELSE 0]
    /\ cmds' = [cmds EXCEPT
                  !.reconnect = Without(@, k),
                  !.msgs = Append(@,
                      IF dialed
                      THEN Msg("RECONNECTED", [message |-> txtReconnected],
                               <<"reconnectWithoutTLS">>)
                      ELSE Msg("ERROR", [message |-> txtDialFailed],
                               <<"reconnectWithoutTLS">>))]
    /\ UNCHANGED <<connVars, net, pc, ret, trace, tasks, connects, sent, panicked,
                   debugSendFn, parsed, ircMsgChan, model>>

\* The program on a TLS port (6697, 7000, 7001 or 9999), connected.  The
\* Conns are summarised by clients: what each was built with and the calls
\* the UI made on it.
InitTLS ==
    /\ InitWith(UIRegistry, <<>>)
    /\ debugSendFn = FALSE
    /\ ircMsgChan = <<>>
    /\ model = InitialModel(TRUE)
    /\ cmds = [NoCmds EXCEPT !.wait = 1]
    /\ clients = << [NewClient(TRUE) EXCEPT !.handlers = UIRegistry, !.connects = 1] >>

NextTLS ==
    \/ \E text \in TLSErrorCommands : ErrorHandlerRuns(text)
    \/ WaitForIRCMessage
    \/ \E k \in 1..Len(cmds.msgs) : Update(k)
    \/ ReconnectTimer
    \/ \E k \in 1..Len(cmds.reconnect) :
          \/ ReconnectQuit(k) \/ ReconnectClient(k) \/ ReconnectSetup(k)
          \/ \E dialed \in BOOLEAN : ReconnectConnect(k, dialed)

SpecTLS == InitTLS /\ [][NextTLS]_vars

\* C20: a consumed TLS_ERROR starts the reconnect procedure if and only if
\* the configuration of the Connection in use at that moment has TLS on; one
\* consumed while that configuration is plaintext only reports the error.
C20_ReconnectIffActiveTLS ==
    [][\A k \in 1..Len(cmds.msgs) :
          (Update(k) /\ cmds.msgs[k].Type = "TLS_ERROR") =>
              ((cmds'.timer = cmds.timer + 1) <=> ActiveClient.SSL)]_vars


(***************************************************************************)
(* The cancellation signal                                                 *)
(***************************************************************************)
\* C24: over any sequence of operations on one Connection, several Quit
\* calls included, the cancellation signal is raised once: whenever a call
\* reaches close(c.quit), the signal has not been raised before.
C24_QuitSignalRaisedOnce ==
    [][(\E p \in Procs : QuitCloseQuit(p)) => quit = "open"]_vars


\* PINGs the peer sends over the whole run (SpecCancel)
MaxPings == 1

PeerSendsPing(s) ==
    /\ panicked = ""
    /\ s \in 1..Len(net) /\ net[s].open /\ net[s].peerUp
    /\ sent < MaxPings
    /\ sent' = sent + 1
    /\ net' = [net EXCEPT ![s].inbox = Append(@, InPingArg)]
    /\ UNCHANGED <<connVars, pc, ret, trace, tasks, connects, panicked,
                   debugSendFn, parsed, uiVars>>

\* Cancellation: one goroutine calls Connect, another Quit, at any time; the
\* peer sends a PING or stays silent.
InitCancel ==
    /\ InitWith(RegDisconnected, << ConnectBody, QuitBody(Goodbye) >>)
    /\ debugSendFn = FALSE
    /\ NoUI

\* a step of goroutine p
Step(p) ==
    \/ ConnectDialFailed(p) \/ ConnectDialed(p)
    \/ ConnectMarkConnected(p) \/ ConnectReturn(p)
    \/ SendRaw(p) \/ SendRawFlush(p) \/ SendRawFlushFails(p)
    \/ QuitCloseQuit(p) \/ QuitWaitDone(p) \/ QuitWaitTimeout(p)
    \/ QuitReturn(p)
    \/ ReadLoopSelect(p) \/ ReadLoopLine(p) \/ ReadLoopTimeout(p)
    \/ ReadLoopReadError(p) \/ ReadLoopMarkDisconnected(p)
    \/ DispatchHandlers(p) \/ ReadLoopCloseDone(p)

NextCancel ==
    \/ \E p \in Procs : Step(p)
    \/ \E i \in 1..Len(tasks) : RunHandler(i)
    \/ \E s \in 1..Len(net) : PeerSendsPing(s)

SpecCancel == InitCancel /\ [][NextCancel]_vars

\* the scheduler lets a goroutine that can take a step take one; a read
\* returns or times out
SpecCancelFair == SpecCancel /\ WF_vars(\E p \in Procs : Step(p))

\* C25: once the cancellation signal has been raised with a read loop
\* running, the read loop eventually exits; the select that observes the
\* signal does not start another read.
C25_ReadLoopExitsAfterCancel ==
    /\ [][\A p \in Procs :
            (quit = "closed" /\ At(p, "readLoop.select") /\ pc'[p] # pc[p])
               => pc'[p] = <<>> \/ Head(pc'[p]).op # "readLoop.read"]_vars
    /\ (quit = "closed" /\ LiveReadLoops # {}) ~> (LiveReadLoops = {})
\* the signal is raised, the socket still open, and the read loop has returned
C25_Witness ==
    /\ panicked = ""
    /\ \E q \in Procs : At(q, "Quit.wait")
    /\ \A s \in 1..Len(net) : net[s].open /\ net[s].peerUp
    /\ Returned("readLoop") # {}

\* C26: a read timeout is not terminal: a timeout without cancellation
\* leaves the loop running and Connected() true, and dispatches nothing, so
\* no DISCONNECTED.
C26_TimeoutNotTerminal ==
    [][\A p \in Procs :
          (quit = "open" /\ ReadLoopTimeout(p)) =>
              /\ pc'[p] = ReadLoopBody
              /\ connected /\ connected'
              /\ trace' = trace /\ tasks' = tasks
              /\ {x \in Events("handlers") : EvAt(x).cmd = sDISCONNECTED} = {}]_vars
\* the loop is in a read with nothing to read and no cancellation: the
\* deadline is about to pass
C26_Witness ==
    /\ panicked = "" /\ quit = "open" /\ connected
    /\ \E p \in Procs :
          /\ At(p, "readLoop.read")
          /\ net[conn].inbox = <<>> /\ net[conn].open /\ net[conn].peerUp


(***************************************************************************)
(* A PONG that cannot be sent                                              *)
(***************************************************************************)
\* the registry after HandleFunc("PING", h1) and HandleFunc("*", h2)
RegPing == [t \in {sPING, sStar} |-> IF t = sPING THEN <<1>> ELSE <<2>>]

\* Connect is called, again and again; the peer sends a PING and may close
\* the connection at any time.
InitPong ==
    /\ InitWith(RegPing, << Repeat(MaxConnectCalls, ConnectBody) >>)
    /\ debugSendFn = FALSE
    /\ NoUI

NextPong ==
    \/ \E p \in Procs :
         \/ ConnectDialed(p) \/ ConnectMarkConnected(p) \/ ConnectReturn(p)
         \/ SendRaw(p) \/ SendRawFlush(p) \/ SendRawFlushFails(p)
         \/ ReadLoopSelect(p) \/ ReadLoopLine(p) \/ ReadLoopTimeout(p)
         \/ ReadLoopReadError(p) \/ ReadLoopMarkDisconnected(p)
         \/ DispatchHandlers(p) \/ ReadLoopCloseDone(p)
    \/ \E s \in 1..Len(net) : PeerSendsPing(s)
    \/ \E s \in 1..Len(net) : PeerCloses(s)

SpecPong == InitPong /\ [][NextPong]_vars

\* the PONG sends that failed
FailedPongs == PongsSent({"not connected", "write error"})

\* C28: when the PONG for a PING cannot be sent, because of a write error or
\* because the Conn is not connected, dispatch still starts every handler
\* registered for PING and for * on that line, and the read loop goes on to
\* its next iteration.
C28_HandlersStartedAfterFailedPong ==
    /\ [](\A x \in FailedPongs :
            IF Len(trace[x[1]]) > x[2]
            THEN LET next == trace[x[1]][x[2] + 1]
                 IN  /\ next.e = "handlers" /\ next.cmd = sPING
                     /\ next.started =
                           HandlersOf(next.reg, sPING) \o HandlersOf(next.reg, sStar)
                     /\ \A k \in 1..Len(next.started) :
                           TasksOf(<<x[1], x[2] + 1>>, next.started[k]) = 1
            ELSE At(x[1], "dispatch.handlers") /\ Head(pc[x[1]]).cmd = sPING)
    /\ [][\A p \in Procs :
            (DispatchHandlers(p) /\ Head(pc[p]).cmd = sPING)
               => pc'[p] = ReadLoopBody]_vars
C28_Witness ==
    /\ \E x \in FailedPongs :
          /\ EvAt(x).err = "not connected"
          /\ Len(trace[x[1]]) > x[2]
          /\ trace[x[1]][x[2] + 1].started = <<1, 2>>
          /\ x[1] \in LiveReadLoops


(***************************************************************************)
(* The debug hook                                                          *)
(***************************************************************************)
\* SetDebugSend, lines 86-90
SetDebugSend ==
    /\ panicked = ""
    /\ CanLock
    /\ ~debugSendFn
    /\ debugSendFn' = TRUE
    /\ UNCHANGED <<connVars, net, pc, ret, trace, tasks, connects, sent, panicked,
                   parsed, uiVars>>

\* One goroutine calls Connect and then Quit, another Privmsg; the peer sends
\* a PING; SetDebugSend is called at any time.
InitHook ==
    /\ InitWith(<<>>, << ConnectBody \o QuitBody(Goodbye),
                         RawBody(PrivmsgCmd(Channel, Hello)) >>)
    /\ debugSendFn = FALSE
    /\ NoUI

NextHook ==
    \/ \E p \in Procs :
         \/ ConnectDialed(p) \/ ConnectMarkConnected(p) \/ ConnectReturn(p)
         \/ SendRaw(p) \/ SendRawHook(p) \/ SendRawWrite(p)
         \/ SendRawFlush(p) \/ SendRawFlushFails(p) \/ Return(p)
         \/ QuitCloseQuit(p) \/ QuitWaitDone(p) \/ QuitWaitTimeout(p)
         \/ QuitReturn(p)
         \/ ReadLoopSelect(p) \/ ReadLoopLine(p) \/ ReadLoopTimeout(p)
         \/ ReadLoopReadError(p) \/ ReadLoopMarkDisconnected(p)
         \/ DispatchHandlers(p) \/ ReadLoopCloseDone(p)
    \/ \E s \in 1..Len(net) : PeerSendsPing(s)
    \/ SetDebugSend

SpecHook == InitHook /\ [][NextHook]_vars

\* the events of every kind, as <<goroutine, position>>
AllEvents == UNION {{<<p, i>> : i \in 1..Len(trace[p])} : p \in Procs}

\* C27: with a debug hook installed, every line written is preceded by
\* exactly one call of the hook with the line's text, made by the goroutine
\* that writes, before it writes: each write of a call that found a hook comes
\* right after that call's hook call, each hook call is followed by the write
\* it announces, and the step that calls the hook writes nothing.
C27_HookOnceBeforeEachWrite ==
    /\ [](\A x \in AllEvents :
            /\ (EvAt(x).e = "send" /\ EvAt(x).err # "not connected") =>
                  IF EvAt(x).hook
                  THEN /\ x[2] > 1
                       /\ Before(x).e = "hook" /\ Before(x).cmd = EvAt(x).cmd
                  ELSE x[2] > 1 => Before(x).e # "hook"
            /\ EvAt(x).e = "hook" =>
                  IF Len(trace[x[1]]) > x[2]
                  THEN /\ trace[x[1]][x[2] + 1].e = "send"
                       /\ trace[x[1]][x[2] + 1].cmd = EvAt(x).cmd
                       /\ trace[x[1]][x[2] + 1].hook
                  ELSE /\ At(x[1], "sendRaw.write") \/ At(x[1], "sendRaw.flush")
                       /\ Head(pc[x[1]]).cmd = EvAt(x).cmd)
    /\ [][\A p \in Procs :
            /\ (debugSendFn /\ At(p, "sendRaw") /\ connected /\ pc'[p] # pc[p])
                  => net' = net /\ At(p, "sendRaw.hook")'
            /\ (At(p, "sendRaw.hook") /\ pc'[p] # pc[p])
                  => /\ net' = net
                     /\ trace'[p] = Append(trace[p],
                                           [Ev("hook") EXCEPT !.cmd = Head(pc[p]).cmd])]_vars
\* the PONG, the QUIT and a Privmsg have gone out, each after its hook call
C27_Witness ==
    /\ \E x \in Events("send") :
          IsPong(EvAt(x).cmd) /\ EvAt(x).err = "nil" /\ EvAt(x).hook
    /\ \E x \in Events("send") :
          EvAt(x).cmd = QuitCmd(Goodbye) /\ EvAt(x).err = "nil" /\ EvAt(x).hook
    /\ \E x \in Events("send") :
          EvAt(x).cmd = PrivmsgCmd(Channel, Hello) /\ EvAt(x).err = "nil" /\ EvAt(x).hook


(***************************************************************************)
(* A full bus                                                              *)
(***************************************************************************)
\* PINGs the peer sends over the whole run (SpecBusFull)
MaxBusLines == 50

\* nothing is left to do for the lines sent so far: the read loop waits for
\* input and every handler started has run
Quiet ==
    /\ \A s \in 1..Len(net) : net[s].inbox = <<>>
    /\ \A p \in LiveReadLoops : Len(pc[p]) = 1
    /\ \A i \in 1..Len(tasks) : tasks[i].st = "done"

\* the peer sends a PING once the program is quiet
PeerSendsPingWhenQuiet(s) ==
    /\ panicked = ""
    /\ s \in 1..Len(net) /\ net[s].open /\ net[s].peerUp
    /\ LiveReadLoops # {} /\ Quiet
    /\ sent < MaxBusLines
    /\ sent' = sent + 1
    /\ net' = [net EXCEPT ![s].inbox = Append(@, InPingArg)]
    /\ UNCHANGED <<connVars, pc, ret, trace, tasks, connects, panicked,
                   debugSendFn, parsed, uiVars>>

\* The program in verbose mode (-v): the * handler is registered and the
\* debug hook set.  The consumer is stalled: Update does not come back to
\* the bus.  The peer sends PING after PING.
InitBusFull ==
    /\ InitWith(UIRegistryVerbose, << ConnectBody >>)
    /\ debugSendFn = TRUE
    /\ ircMsgChan = <<>>
    /\ model = InitialModel(FALSE)
    /\ cmds = InitialCmds
    /\ clients = << NewClient(FALSE) >>

NextBusFull ==
    \/ \E p \in Procs :
         \/ ConnectDialed(p) \/ ConnectMarkConnected(p) \/ ConnectReturn(p)
         \/ SendRaw(p) \/ SendRawHook(p) \/ SendRawWrite(p) \/ SendRawFlush(p)
         \/ ReadLoopSelect(p) \/ ReadLoopLine(p) \/ ReadLoopTimeout(p)
         \/ DispatchHandlers(p)
         \/ ConnectIRCReturns(p)
    \/ \E i \in 1..Len(tasks) : RunUIHandler(i)
    \/ \E s \in 1..Len(net) : PeerSendsPingWhenQuiet(s)

SpecBusFull == InitBusFull /\ [][NextBusFull]_vars

\* C23: with the bus full and the consumer stalled, only handler goroutines
\* block: the read loop goes on reading, parsing and dispatching, answers
\* PING with PONG, and is never itself waiting for room on the bus, with the
\* debug hook set or not.
C23_ReadLoopNeverWaitsForBus ==
    \A p \in LiveReadLoops :
        ~(At(p, "sendRaw.hook") /\ Len(ircMsgChan) >= BusCap)


(***************************************************************************)
(* The registries                                                          *)
(***************************************************************************)
\* HandleFunc, lines 79-83, on the k-th of the other Conns: each Conn has
\* the map Client made for it (line 72) and its own lock
HandleFuncOn(k, event, h) ==
    /\ panicked = ""
    /\ k \in 1..Len(clients)
    /\ h = Cardinality(Registered(clients[k].handlers)) + 1
    /\ clients' = [clients EXCEPT ![k].handlers = WithHandler(@, event, h)]
    /\ UNCHANGED <<connVars, net, pc, ret, trace, tasks, connects, sent, panicked,
                   debugSendFn, parsed, ircMsgChan, model, cmds>>

\* Two Conns: on one, Connect and then Quit are called, the peer sends a
\* PING, and HandleFunc is called at any time; on the other only HandleFunc.
InitRegistry ==
    /\ InitWith(<<>>, << ConnectBody \o QuitBody(Goodbye) >>)
    /\ debugSendFn = FALSE
    /\ ircMsgChan = <<>>
    /\ model = NoModel
    /\ cmds = NoCmds
    /\ clients = << NewClient(FALSE) >>

NextRegistry ==
    \/ \E p \in Procs : Step(p)
    \/ \E s \in 1..Len(net) : PeerSendsPing(s)
    \/ \E event \in {sPING, sStar} : \E h \in 1..MaxHandleFunc : HandleFunc(event, h)
    \/ \E k \in 1..Len(clients) : \E h \in 1..MaxHandleFunc :
          HandleFuncOn(k, sPING, h)

SpecRegistry == InitRegistry /\ [][NextRegistry]_vars

\* new is old with one handler appended to the list of one tag
OneAppended(old, new) ==
    \E event \in DOMAIN new :
        /\ DOMAIN new = DOMAIN old \cup {event}
        /\ Len(new[event]) = Len(HandlersOf(old, event)) + 1
        /\ SubSeq(new[event], 1, Len(new[event]) - 1) = HandlersOf(old, event)
        /\ \A t \in DOMAIN old \ {event} : new[t] = old[t]

\* C29: within one Conn the list of every tag only grows: a registry changes
\* only by one handler appended at the end of one tag's list, the lists of
\* the other tags and the registries of the other Conns staying as they
\* are; no step of Connect, dispatch, Quit or the read loop changes a
\* registry.
C29_RegistryAppendOnly ==
    [][/\ handlers' # handlers =>
             OneAppended(handlers, handlers') /\ clients' = clients
       /\ \A k \in 1..Len(clients) :
             clients'[k].handlers # clients[k].handlers =>
                /\ OneAppended(clients[k].handlers, clients'[k].handlers)
                /\ handlers' = handlers
                /\ \A j \in 1..Len(clients) \ {k} : clients'[j] = clients[j]
       /\ (\E p \in Procs : Step(p)) =>
             handlers' = handlers /\ clients' = clients]_vars
\* both Conns have handlers, the first two under one tag, and the read loop
\* has dispatched and exited
C29_Witness ==
    /\ \E t \in DOMAIN handlers : Len(handlers[t]) >= 2
    /\ clients[1].handlers # <<>>
    /\ clients[1].handlers # handlers
    /\ Events("handlers") # {}
    /\ done = "closed"


\* C30: at every moment at most one receive of the consumer is pending on
\* the bus, also after the first Connect has failed and after a fallback
\* from TLS.
C30_OnePendingReceive == cmds.wait <= 1


(***************************************************************************)
(* The bus and its consumer                                                *)
(***************************************************************************)
\* The program in verbose mode with its consumer running; the peer sends
\* PING after PING.
NextBus ==
    \/ NextBusFull
    \/ \E p \in Procs : ConnectDialFailed(p)
    \/ WaitForIRCMessage
    \/ \E k \in 1..Len(cmds.msgs) : Update(k)

SpecBus == InitBusFull /\ [][NextBus]_vars

\* a message the program holds that was received from the bus: connectIRC
\* and the reconnect command hand their result to the program themselves
FromBus(msg) == msg.from \notin {<<"connectIRC">>, <<"reconnectWithoutTLS">>}
BusHeld == SelectSeq(cmds.msgs, FromBus)

\* C22: the bus, empty at first, never holds more than 100 messages; a
\* message is put at its end and taken from its head, every message on it
\* staying where it is, so none is dropped or duplicated; and the consumer
\* handles the messages in the order they were put on the bus: the one it
\* handles is the oldest of those received and not yet handled.
C22_BoundedFIFO ==
    [][/\ Len(ircMsgChan') <= BusCap
       /\ \/ ircMsgChan' = ircMsgChan
          \/ /\ Len(ircMsgChan') > Len(ircMsgChan)
             /\ SubSeq(ircMsgChan', 1, Len(ircMsgChan)) = ircMsgChan
             /\ BusHeld' = BusHeld
          \/ /\ ircMsgChan # <<>>
             /\ ircMsgChan' = Tail(ircMsgChan)
             /\ BusHeld' = Append(BusHeld, Head(ircMsgChan))
       /\ (BusHeld' # BusHeld /\ ircMsgChan' = ircMsgChan) =>
             /\ BusHeld' = Tail(BusHeld)
             /\ Head(BusHeld).Type # "RECONNECT" =>
                   model' = handleIRCMessage(model, Head(BusHeld))]_vars
\* the consumer has handled the first messages, and the bus is full
C22_Witness ==
    /\ Len(ircMsgChan) = BusCap
    /\ Len(model.messages) >= 2
    /\ \A i \in 1..2 : model.messages[i].fmt = "debug"


(***************************************************************************)
(* The order of the reconnect procedure                                    *)
(***************************************************************************)
\* the Conns that are dialed: Connect has dialed and Quit has not returned
Dialed(cs) == {j \in 1..Len(cs) : cs[j].connects > 0 /\ cs[j].quits = 0}

\* C21: every reconnect command goes through its steps in order.  A Conn is
\* built only by a command whose Quit on the Conn it held has returned, with
\* SSL off and no SSLConfig; the handlers are registered on a Conn that
\* Connect has not been called on; Connect is called on the new Conn only
\* with the whole handler set registered and no other Conn dialed.  So
\* every line dispatched is dispatched against the whole handler set, and
\* two Conns are never dialed at once.  (A command whose Quit panics takes
\* no further step.)
C21_ReconnectInOrder ==
    [][panicked' = "" =>
         /\ Len(clients') > Len(clients) =>
               \E k \in 1..Len(cmds.reconnect) :
                  /\ cmds.reconnect[k].old # 0
                  /\ clients[cmds.reconnect[k].old].quits > 0
                  /\ cmds'.reconnect[k].m.irc = Len(clients')
                  /\ clients' = Append(clients,
                        [SSL |-> FALSE, SSLConfig |-> FALSE, handlers |-> <<>>,
                         quits |-> 0, connects |-> 0, wrote |-> <<>>])
         /\ \A j \in 1..Len(clients) :
               clients'[j].handlers # clients[j].handlers =>
                  /\ clients[j].connects = 0 /\ clients'[j].connects = 0
                  /\ clients'[j].handlers = UIRegistry
         /\ Len(cmds'.reconnect) < Len(cmds.reconnect) =>
               \E k \in 1..Len(cmds.reconnect) :
                  LET c == cmds.reconnect[k]
                  IN  /\ cmds'.reconnect = Without(cmds.reconnect, k)
                      /\ c.at = "Connect"
                      /\ c.m.irc # c.old
                      /\ clients[c.old].quits > 0
                      /\ ~clients[c.m.irc].SSL /\ ~clients[c.m.irc].SSLConfig
                      /\ clients[c.m.irc].handlers = UIRegistry
                      /\ Dialed(clients) = {}
         /\ sent' # sent => ActiveClient.handlers = UIRegistry
         /\ Cardinality(Dialed(clients')) <= 1]_vars
\* a reconnect command has run to its end: Quit has returned on the first
\* Conn, the second has its handlers and is dialed, and the program has been
\* told
C21_Witness ==
    /\ Len(clients) >= 2
    /\ clients[1].quits > 0
    /\ clients[2].handlers = UIRegistry
    /\ Dialed(clients) = {2}
    /\ \E i \in 1..Len(model.messages) : model.messages[i].body = txtReconnected


(***************************************************************************)
(* The connected flag                                                      *)
(***************************************************************************)
\* One goroutine calls Connect and then Quit, another Privmsg; the dial
\* fails or not; the peer sends a PING; HandleFunc and SetDebugSend are
\* called at any time.
NextFlag ==
    \/ NextHook
    \/ \E p \in Procs : ConnectDialFailed(p)
    \/ HandleFunc(sPING, 1)

SpecFlag == InitHook /\ [][NextFlag]_vars

\* C38: c.connected changes at two points only: from false to true in
\* Connect after the dial, and from true to false when the read loop exits.
\* Quit, HandleFunc, SetDebugSend, dispatch and every write, failed or not,
\* leave it as it is.
C38_ConnectedChangesAtTwoPoints ==
    [][(panicked' = "" /\ connected' # connected) =>
          \/ ~connected /\ \E p \in Procs : ConnectMarkConnected(p)
          \/ connected /\ \E p \in Procs : ReadLoopMarkDisconnected(p)]_vars
\* the flag has been set and cleared, with a handler registered, the hook
\* set, a write failed and Quit returned
C38_Witness ==
    /\ ~connected
    /\ Events("markDisconnected") # {}
    /\ handlers # <<>>
    /\ debugSendFn
    /\ \E x \in Events("send") : EvAt(x).err = "write error"
    /\ \E p \in Procs : \E i \in 1..Len(ret[p]) : ret[p][i].call = "Quit"


(***************************************************************************)
(* A line whose command is *                                               *)
(***************************************************************************)
\* the line "*" and a line with another command
InStar == sStar \o CRLF
StarLines == {InStar, InPingBare}

\* A handler is registered under PING and one under *; the peer sends "*"
\* lines and PING lines.
InitStar == InitWith(RegPing, << ConnectBody >>) /\ debugSendFn = FALSE /\ NoUI

NextStar ==
    \/ \E p \in Procs :
         \/ ConnectDialed(p) \/ ConnectMarkConnected(p) \/ ConnectReturn(p)
         \/ SendRaw(p) \/ SendRawFlush(p)
         \/ ReadLoopSelect(p) \/ ReadLoopLine(p) \/ ReadLoopTimeout(p)
         \/ DispatchHandlers(p)
    \/ \E i \in 1..Len(tasks) : RunHandler(i)
    \/ \E s \in 1..Len(net) : \E raw \in StarLines : PeerSends(s, raw)

SpecStar == InitStar /\ [][NextStar]_vars

\* C33: for every line dispatched, one whose command is * included, every
\* handler registered under * is started exactly once for that line.
C33_WildcardOncePerLine ==
    \A x \in Events("handlers") :
        \A k \in 1..Len(HandlersOf(EvAt(x).reg, sStar)) :
            LET h == HandlersOf(EvAt(x).reg, sStar)[k]
            IN  TimesStarted(x, h) = 1 /\ TasksOf(x, h) = 1


(***************************************************************************)
(* Lines that arrive in parts                                              *)
(***************************************************************************)
\* where the peer may cut a line: after at most this many bytes
MaxSplitAt == 8

\* the lines the peer sends, in this order
SplitScript == << InPingArg, InPrivmsg >>

\* the peer sends its next line whole
PeerSendsWhole(s) ==
    /\ panicked = ""
    /\ s \in 1..Len(net) /\ net[s].open /\ net[s].peerUp
    /\ net[s].unsent = <<>>
    /\ sent < Len(SplitScript)
    /\ sent' = sent + 1
    /\ net' = [net EXCEPT ![s].inbox = Append(@, SplitScript[sent + 1])]
    /\ UNCHANGED <<connVars, pc, ret, trace, tasks, connects, panicked,
                   debugSendFn, parsed, uiVars>>

\* the first n bytes of the peer's next line arrive, the rest is under way
PeerSendsPart(s, n) ==
    /\ panicked = ""
    /\ s \in 1..Len(net) /\ net[s].open /\ net[s].peerUp
    /\ net[s].unsent = <<>>
    /\ sent < Len(SplitScript)
    /\ n \in 1..(Len(SplitScript[sent + 1]) - 1)
    /\ sent' = sent + 1
    /\ LET raw == SplitScript[sent + 1]
       IN  net' = [net EXCEPT ![s].inbox = Append(@, SubSeq(raw, 1, n)),
                              ![s].unsent = SubSeq(raw, n + 1, Len(raw))]
    /\ UNCHANGED <<connVars, pc, ret, trace, tasks, connects, panicked,
                   debugSendFn, parsed, uiVars>>

\* the rest arrives: after the bytes still in the reader's buffer, if any
PeerSendsRest(s) ==
    /\ panicked = ""
    /\ s \in 1..Len(net) /\ net[s].open /\ net[s].peerUp
    /\ net[s].unsent # <<>>
    /\ LET box == net[s].inbox
           n == Len(box)
       IN  net' = [net EXCEPT
                     ![s].unsent = <<>>,
                     ![s].inbox =
                        IF n > 0 /\ ~IsWholeLine(box[n])
                        THEN [box EXCEPT ![n] = @ \o net[s].unsent]
                        ELSE Append(box, net[s].unsent)]
    /\ UNCHANGED <<connVars, pc, ret, trace, tasks, connects, sent, panicked,
                   debugSendFn, parsed, uiVars>>

InitSplit == InitWith(RegPing, << ConnectBody >>) /\ debugSendFn = FALSE /\ NoUI

NextSplit ==
    \/ \E p \in Procs :
         \/ ConnectDialed(p) \/ ConnectMarkConnected(p) \/ ConnectReturn(p)
         \/ SendRaw(p) \/ SendRawFlush(p)
         \/ ReadLoopSelect(p) \/ ReadLoopLine(p) \/ ReadLoopTimeout(p)
         \/ DispatchHandlers(p)
    \/ \E i \in 1..Len(tasks) : RunHandler(i)
    \/ \E s \in 1..Len(net) :
         \/ PeerSendsWhole(s)
         \/ \E n \in 1..MaxSplitAt : PeerSendsPart(s, n)
         \/ PeerSendsRest(s)

SpecSplit == InitSplit /\ [][NextSplit]_vars

\* the lines the read loops have parsed and dispatched, in order
Received(p) ==
    LET recvs == SelectSeq(trace[p], LAMBDA ev : ev.e = "recv")
    IN  [i \in 1..Len(recvs) |-> recvs[i].cmd]
\* everything the peer sent has been read
AllRead ==
    /\ sent = Len(SplitScript)
    /\ \A s \in 1..Len(net) : net[s].inbox = <<>> /\ net[s].unsent = <<>>
    /\ \A p \in LiveReadLoops : Len(pc[p]) = 1

\* C34: every line the server sends is parsed and dispatched once, whole and
\* in the order sent, wherever the read timeouts fall: what the read loop
\* has dispatched is always the first lines sent, and all of them once
\* everything sent has been read.
C34_LinesWholeInOrder ==
    \A p \in LiveReadLoops :
        /\ Len(Received(p)) <= Len(SplitScript)
        /\ \A i \in 1..Len(Received(p)) : Received(p)[i] = TrimSpace(SplitScript[i])
        /\ AllRead => Len(Received(p)) = Len(SplitScript)


(***************************************************************************)
(* Connect after the read loop has ended                                   *)
(***************************************************************************)
\* the caller waits for the end of the read loop: Connected(), lines
\* 126-130, returns false and the loop has returned
AwaitDisconnected(p) ==
    /\ panicked = "" /\ At(p, "awaitDisconnected")
    /\ ~connected /\ done = "closed"
    /\ \A q \in Procs : ~At(q, "readLoop.markDisconnected")
    /\ Goto(p, Rest(p))
    /\ UNCHANGED <<connVars, net, ret, trace, tasks, connects, sent, panicked,
                   debugSendFn, parsed, uiVars>>

\* Connect is called; the peer closes the socket, the read fails and the
\* read loop ends; then Connect is called again on the same Conn, and the
\* peer closes again or not.
InitRecover ==
    /\ InitWith(RegDisconnected,
                << ConnectBody \o << F("awaitDisconnected") >> \o ConnectBody >>)
    /\ debugSendFn = FALSE
    /\ NoUI

NextRecover ==
    \/ \E p \in Procs :
         \/ ConnectDialFailed(p) \/ ConnectDialed(p)
         \/ ConnectMarkConnected(p) \/ ConnectReturn(p)
         \/ SendRaw(p) \/ SendRawFlush(p) \/ SendRawFlushFails(p)
         \/ ReadLoopSelect(p) \/ ReadLoopLine(p) \/ ReadLoopTimeout(p)
         \/ ReadLoopReadError(p) \/ ReadLoopMarkDisconnected(p)
         \/ DispatchHandlers(p) \/ ReadLoopCloseDone(p)
         \/ AwaitDisconnected(p)
    \/ \E i \in 1..Len(tasks) : RunHandler(i)
    \/ \E s \in 1..Len(net) : PeerSendsPing(s)
    \/ \E s \in 1..Len(net) : PeerCloses(s)

SpecRecover == InitRecover /\ [][NextRecover]_vars

\* C31: after the read loop has ended on a read error nothing connects the
\* Conn again, and a Connect called on it then recovers it: when that
\* Connect returns nil the Conn is connected and a read loop runs, and
\* when that loop ends its exit goes through to the end: Disconnected, the
\* DISCONNECTED event, completion.
C31_ConnectRecovers ==
    [][/\ (panicked' = "" /\ connects' # connects) =>
             \E p \in Procs : ConnectMarkConnected(p)
       /\ \A p \in Procs :
             (ConnectReturn(p) /\ connects = 2) =>
                connected' /\ LiveReadLoops' # {}
       /\ \A p \in Procs :
             (ReadLoopCloseDone(p) /\ connects = 2) =>
                /\ panicked' = ""
                /\ \E x \in Events("handlers") :
                      x[1] = p /\ EvAt(x).cmd = sDISCONNECTED
                /\ ~connected']_vars


(***************************************************************************)
(* Nickname in use                                                         *)
(***************************************************************************)
IsNick(l) == Len(l) >= 4 /\ SubSeq(l, 1, 4) = sNICK

\* C32: a 433 reply has one effect: its handler sends one ERROR message when
\* the reply has at least two arguments, and nothing otherwise.  No nick
\* other than the configured one is ever sent: the only NICK line of a
\* socket is the first line Connect writes.
C32_NickInUseOnlyReports ==
    /\ \A x \in Events("handlers") :
          EvAt(x).cmd = s433 => Len(EvAt(x).started) = 1
    /\ \A i \in Ran :
          tasks[i].event = s433 =>
             tasks[i].sent =
                IF Len(LineOf(i).Args) >= 2
                THEN << Msg("ERROR", [message |-> txtNickInUse \o LineOf(i).Args[2]],
                            s433) >>
                ELSE <<>>
    /\ \A p \in Procs : \A k \in 1..Len(SendsOf(p)) :
          IsNick(SendsOf(p)[k].cmd) => k = 1 /\ SendsOf(p)[k].cmd = NickCmd
\* 433 replies have been handled: one with the nick in it, one without
C32_Witness ==
    /\ \E i \in Ran :
          /\ tasks[i].event = s433
          /\ Len(LineOf(i).Args) >= 2
          /\ Len(tasks[i].sent) = 1
    /\ \E i \in Ran :
          /\ tasks[i].event = s433
          /\ Len(LineOf(i).Args) < 2
          /\ tasks[i].sent = <<>>


(***************************************************************************)
(* The Conn the program uses after the fallback                            *)
(***************************************************************************)
\* lines the user enters over the whole run (SpecFallback)
MaxKeys == 2

txtNotConnected == <<"N","o","t"," ","c","o","n","n","e","c","t","e","d">>

\* Connected() of a Conn that is not followed step by step: it has been
\* dialed and its read loop has not ended, which it does when Quit is called
ClientConnected(k) == clients[k].connects > 0 /\ clients[k].quits = 0

\* handleKey, lines 1154-1171, in Update: the user enters a line of text in
\* a channel; m.irc is the Conn of the program's model
HandleKeyEnter ==
    /\ panicked = ""
    /\ model.channel # <<>>
    /\ Len(SelectSeq(model.messages, LAMBDA l : l.fmt \in {"msg", "key"})) < MaxKeys
    /\ IF ~ClientConnected(model.irc)
       THEN /\ model' = addMessage(model, "key", txtNotConnected)
            /\ UNCHANGED clients
       ELSE /\ clients' = [clients EXCEPT ![model.irc].wrote =
                              Append(@, PrivmsgCmd(model.channel, Hello))]
            /\ model' = addMessage(model, "msg", Hello)
    /\ UNCHANGED <<connVars, net, pc, ret, trace, tasks, connects, sent, panicked,
                   debugSendFn, parsed, ircMsgChan, cmds>>

\* The program on a TLS port, connected and in a channel; the server sends
\* ERROR commands, the program falls back, the user enters lines.
InitFallback ==
    /\ InitWith(UIRegistry, <<>>)
    /\ debugSendFn = FALSE
    /\ ircMsgChan = <<>>
    /\ model = [InitialModel(TRUE) EXCEPT !.channels = <<Channel>>, !.channel = Channel]
    /\ cmds = [NoCmds EXCEPT !.wait = 1]
    /\ clients = << [NewClient(TRUE) EXCEPT !.handlers = UIRegistry, !.connects = 1] >>

NextFallback ==
    \/ NextTLS
    \/ HandleKeyEnter

SpecFallback == InitFallback /\ [][NextFallback]_vars

\* the program has been told that the fallback succeeded
ReconnectedShown ==
    \E i \in 1..Len(model.messages) :
        model.messages[i].fmt = "sys" /\ model.messages[i].body = txtReconnected

\* C35: once RECONNECTED has been delivered, the Conn the program checks and
\* writes on is the plaintext Conn the fallback built: a line the user
\* enters then is written on that Conn's socket, not addressed to the Conn
\* Quit was called on.
C35_ProgramUsesNewConn ==
    [][(HandleKeyEnter /\ ReconnectedShown) =>
          /\ ~clients[model.irc].SSL
          /\ clients[model.irc].quits = 0
          /\ clients'[model.irc].wrote =
                Append(clients[model.irc].wrote, PrivmsgCmd(model.channel, Hello))]_vars


(***************************************************************************)
(* A command of the consumer with the bus full                             *)
(***************************************************************************)
\* handleKey, lines 1154-1171, step by step: the Connected() check, then
\* Privmsg, then the line is shown
KeyBody ==
    << F("handleKey"), FCmd("sendRaw", PrivmsgCmd(Channel, Hello)),
       F("handleKey.return") >>

\* the user presses Enter when the bus is full; lines 1160-1163: m.irc is
\* connected
HandleKeyBegins(p) ==
    /\ panicked = "" /\ At(p, "handleKey")
    /\ Len(ircMsgChan) = BusCap
    /\ connected
    /\ Goto(p, Rest(p))
    /\ UNCHANGED <<connVars, net, ret, trace, tasks, connects, sent, panicked,
                   debugSendFn, parsed, uiVars>>

\* lines 1166-1171: Privmsg has returned, the line is shown, Update returns
HandleKeyReturns(p) ==
    /\ panicked = "" /\ At(p, "handleKey.return")
    /\ Goto(p, Rest(p))
    /\ Returns(p, Ret("handleKey", "nil"))
    /\ model' = addMessage(model, "msg", Hello)
    /\ UNCHANGED <<connVars, net, trace, tasks, connects, sent, panicked,
                   debugSendFn, parsed, ircMsgChan, cmds, clients>>

\* The program in verbose mode, in a channel, its consumer running; the
\* peer sends PING after PING; the user enters a line.
InitKey ==
    /\ InitWith(UIRegistryVerbose, << ConnectBody, KeyBody >>)
    /\ debugSendFn = TRUE
    /\ ircMsgChan = <<>>
    /\ model = [InitialModel(FALSE) EXCEPT !.channels = <<Channel>>, !.channel = Channel]
    /\ cmds = InitialCmds
    /\ clients = << NewClient(FALSE) >>

NextKey ==
    \/ NextBus
    \/ \E p \in Procs : HandleKeyBegins(p) \/ HandleKeyReturns(p)

SpecKey == InitKey /\ [][NextKey]_vars

\* the consumer waits in the hook of its own command for room on the bus,
\* and no receive is pending: the next one is started when Update returns
ConsumerWaitsForItself ==
    /\ InHandleKey
    /\ \E p \in Procs : At(p, "sendRaw.hook") /\ pc[p][Len(pc[p])].op = "handleKey.return"
    /\ Len(ircMsgChan) >= BusCap
    /\ cmds.wait = 0

\* C36: a command the consumer issues from Update always returns, with the
\* hook set and 100 messages on the bus too: the consumer is never waiting
\* for room on the bus that only it makes.
C36_ConsumerCommandReturns == ~ConsumerWaitsForItself


(***************************************************************************)
(* The fallback from TLS with the bus full                                 *)
(***************************************************************************)
InErrorTLS == sERROR \o <<SP,":","n","o",SP,"T","L","S">> \o CRLF

\* the server refuses the session: ERROR is the first line it sends
PeerSendsErrorFirst(s) ==
    /\ panicked = ""
    /\ s \in 1..Len(net) /\ net[s].open /\ net[s].peerUp
    /\ LiveReadLoops # {} /\ Quiet
    /\ tasks = <<>>
    /\ net' = [net EXCEPT ![s].inbox = Append(@, InErrorTLS)]
    /\ UNCHANGED <<connVars, pc, ret, trace, tasks, connects, sent, panicked,
                   debugSendFn, parsed, uiVars>>

\* it is silent until Update has returned the reconnect command, and sends
\* PING after PING until that command is run
PeerSendsPingLate(s) ==
    /\ \E k \in 1..Len(cmds.reconnect) : cmds.reconnect[k].at = "Quit"
    /\ PeerSendsPingWhenQuiet(s)

\* the command of reconnectWithoutTLS, lines 515-545, when m.irc is the Conn
\* followed step by step: the goroutine that runs the command calls Quit("")
ReconnectBody ==
    << F("reconnectWithoutTLS") >> \o QuitBody(<<>>)
       \o << F("reconnectWithoutTLS.Client") >>

\* lines 517-518: the command Update returned is run and calls m.irc.Quit("")
ReconnectCallsQuit(p, k) ==
    /\ panicked = "" /\ At(p, "reconnectWithoutTLS")
    /\ k \in 1..Len(cmds.reconnect) /\ cmds.reconnect[k].at = "Quit"
    /\ cmds' = [cmds EXCEPT !.reconnect[k].at = "Quit.called"]
    /\ Goto(p, Rest(p))
    /\ UNCHANGED <<connVars, net, ret, trace, tasks, connects, sent, panicked,
                   debugSendFn, parsed, ircMsgChan, model, clients>>

\* line 519: Quit has returned
ReconnectQuitReturned(p, k) ==
    /\ panicked = "" /\ At(p, "reconnectWithoutTLS.Client")
    /\ k \in 1..Len(cmds.reconnect) /\ cmds.reconnect[k].at = "Quit.called"
    /\ clients' = [clients EXCEPT ![cmds.reconnect[k].m.irc].quits = @ + 1]
    /\ cmds' = [cmds EXCEPT !.reconnect[k].at = "Client",
                            !.reconnect[k].old = cmds.reconnect[k].m.irc]
    /\ Goto(p, Rest(p))
    /\ UNCHANGED <<connVars, net, ret, trace, tasks, connects, sent, panicked,
                   debugSendFn, parsed, ircMsgChan, model>>

\* line 530 in verbose mode: m.setupIRCHandlers() registers the * handler
\* too and sets the hook on the new Conn (lines 222-234)
ReconnectSetupVerbose(k) ==
    /\ panicked = ""
    /\ k \in 1..Len(cmds.reconnect) /\ cmds.reconnect[k].at = "setupIRCHandlers"
    /\ clients' = [clients EXCEPT ![cmds.reconnect[k].m.irc].handlers = UIRegistryVerbose]
    /\ cmds' = [cmds EXCEPT !.reconnect[k].at = "Connect"]
    /\ UNCHANGED <<connVars, net, pc, ret, trace, tasks, connects, sent, panicked,
                   debugSendFn, parsed, ircMsgChan, model>>

\* line 533, Connect on the new Conn (irc.go, lines 97-105): the dial fails
\* and the command returns ERROR, or the Conn is marked connected
ReconnectDial(k, dialed) ==
    /\ panicked = ""
    /\ k \in 1..Len(cmds.reconnect) /\ cmds.reconnect[k].at = "Connect"
    /\ IF dialed
       THEN /\ clients' = [clients EXCEPT ![cmds.reconnect[k].m.irc].connects = 1]
            /\ cmds' = [cmds EXCEPT !.reconnect[k].at = "NICK"]
       ELSE /\ cmds' = [cmds EXCEPT
                          !.reconnect = Without(@, k),
                          !.msgs = Append(@, Msg("ERROR", [message |-> txtDialFailed],
                                                 <<"reconnectWithoutTLS">>))]
            /\ UNCHANGED clients
    /\ UNCHANGED <<connVars, net, pc, ret, trace, tasks, connects, sent, panicked,
                   debugSendFn, parsed, ircMsgChan, model>>

\* irc.go, lines 116-117, on the new Conn: sendRaw for NICK and then for
\* USER calls the hook, which sends on the bus and blocks while the bus is
\* full, and writes the line
ReconnectHandshake(k) ==
    /\ panicked = ""
    /\ k \in 1..Len(cmds.reconnect) /\ cmds.reconnect[k].at \in {"NICK", "USER"}
    /\ LET cmd == IF cmds.reconnect[k].at = "NICK" THEN NickCmd ELSE UserCmd
       IN  /\ Len(ircMsgChan) < BusCap
           /\ ircMsgChan' = Append(ircMsgChan,
                  Msg("DEBUG", [message |-> txtSend \o cmd], <<"SetDebugSend">>))
           /\ clients' = [clients EXCEPT ![cmds.reconnect[k].m.irc].wrote = Append(@, cmd)]
    /\ cmds' = [cmds EXCEPT !.reconnect[k].at =
                              IF @ = "NICK" THEN "USER" ELSE "return"]
    /\ UNCHANGED <<connVars, net, pc, ret, trace, tasks, connects, sent, panicked,
                   debugSendFn, parsed, model>>

\* lines 540-544: Connect has returned nil and the command returns
\* RECONNECTED
ReconnectReturns(k) ==
    /\ panicked = ""
    /\ k \in 1..Len(cmds.reconnect) /\ cmds.reconnect[k].at = "return"
    /\ cmds' = [cmds EXCEPT
                  !.reconnect = Without(@, k),
                  !.msgs = Append(@, Msg("RECONNECTED", [message |-> txtReconnected],
                                         <<"reconnectWithoutTLS">>))]
    /\ UNCHANGED <<connVars, net, pc, ret, trace, tasks, connects, sent, panicked,
                   debugSendFn, parsed, ircMsgChan, model, clients>>

\* The program in verbose mode on a TLS port, its consumer running.
InitReconnect ==
    /\ InitWith(UIRegistryVerbose, << ConnectBody, ReconnectBody >>)
    /\ debugSendFn = TRUE
    /\ ircMsgChan = <<>>
    /\ model = InitialModel(TRUE)
    /\ cmds = InitialCmds
    /\ clients = << NewClient(TRUE) >>

\* messages on the bus when the reconnect command is run (SpecReconnect)
MinBusAtReconnect == 90

\* The reconnect command is run while the read loop waits for input and no
\* handler is left to run.  The read loop, whose reads time out after one
\* second (irc.go, line 148), exits within the two seconds Quit waits for it.
NextReconnect ==
    \/ \E p \in Procs :
         \/ ConnectDialed(p) \/ ConnectMarkConnected(p) \/ ConnectReturn(p)
         \/ SendRaw(p) \/ SendRawHook(p) \/ SendRawWrite(p) \/ SendRawFlush(p)
         \/ ReadLoopSelect(p) \/ ReadLoopLine(p) \/ ReadLoopTimeout(p)
         \/ DispatchHandlers(p)
         \/ ReadLoopMarkDisconnected(p) \/ ReadLoopCloseDone(p)
         \/ QuitCloseQuit(p) \/ QuitWaitDone(p) \/ QuitReturn(p)
         \/ ConnectIRCReturns(p)
    \/ \E i \in 1..Len(tasks) : RunUIHandler(i)
    \/ \E s \in 1..Len(net) : PeerSendsErrorFirst(s) \/ PeerSendsPingLate(s)
    \/ WaitForIRCMessage
    \/ \E k \in 1..Len(cmds.msgs) : Update(k)
    \/ ReconnectTimer
    \/ \E k \in 1..Len(cmds.reconnect) :
          \/ \E p \in Procs :
                /\ Quiet /\ Len(ircMsgChan) >= MinBusAtReconnect
                /\ ReconnectCallsQuit(p, k)
          \/ \E p \in Procs : ReconnectQuitReturned(p, k)
          \/ ReconnectClient(k) \/ ReconnectSetupVerbose(k)
          \/ \E dialed \in BOOLEAN : ReconnectDial(k, dialed)
          \/ ReconnectHandshake(k) \/ ReconnectReturns(k)

SpecReconnect == InitReconnect /\ [][NextReconnect]_vars

\* the reconnect command waits in a hook call for room on the bus, on the
\* old Conn in Quit or on the new one in Connect, and no receive is pending:
\* the program holds no message, so no Update is to come that starts one
\* before the command has returned
ReconnectWaitsForConsumer ==
    /\ Len(ircMsgChan) >= BusCap
    /\ cmds.wait = 0 /\ cmds.msgs = <<>>
    /\ \/ \E p \in Procs :
             /\ At(p, "sendRaw.hook")
             /\ pc[p][Len(pc[p])].op = "reconnectWithoutTLS.Client"
       \/ \E k \in 1..Len(cmds.reconnect) : cmds.reconnect[k].at \in {"NICK", "USER"}

\* C37: a reconnect procedure that has started always finishes and hands
\* RECONNECTED or ERROR to the program, which then receives from the bus
\* again; it is never waiting for room on a full bus, with the hook set,
\* while no receive is pending.
C37_ReconnectFinishes == ~ReconnectWaitsForConsumer

=============================================================================
